---- MODULE Spec2Model ----
(***************************************************************************)
(* Document-generation task engine of inz-backend:                         *)
(*   DocumentsService.createDocumentTask, processDocumentTasks and         *)
(*   processSingleTask (src/src/documents/documents.service.ts) over the   *)
(*   document_generation_tasks table (migration in src/unnamed/part_000),  *)
(*   and the operations of GoogleDocsService with its retry policy         *)
(*   (src/src/google-docs/google-docs.service.ts).                         *)
(* Every store query or update is one atomic step; what an invocation does *)
(* between two store operations (local computation, reads of other tables, *)
(* provider calls) belongs to the step of the store operation that follows.*)
(* Time is read by the program only when an invocation starts, so the      *)
(* clock advances in that step.                                            *)
(***************************************************************************)
EXTENDS Integers, Sequences, FiniteSets, TLC

\* ---------------------------------------------------------------- bounds
MaxTime == 4

\* ------------------------------------------------------ program constants
\* TASK_LOCK_TIMEOUT_MINUTES, in clock ticks
LockTimeout == 1

\* The task rows the model follows.  The rows of every other task of the
\* table are not represented: what they do to an invocation (they fill the
\* limit of the scan, they fill the batch before a followed row is reached)
\* is an input of the scan and claim steps.
Rows == {1}

\* slots of concurrently running invocations of POST /internal/documents/tasks/run
Workers == {1, 2}
\* values of TASK_BATCH_SIZE the deployment may configure
BatchSizes == {1}
\* participantIds bodies a client sends to createDocumentTask
ParticipantLists == {<<1>>, <<1, 2>>, <<2, 2>>}

\* ------------------------------------------------------------- nullables
None == <<>>
Some(x) == <<x>>

\* an object without a field
EmptyRecord == [k \in {} |-> ""]

\* no call on the mappings yet
NoReply ==
    [ op |-> "none", outcome |-> "none", participant |-> EmptyRecord,
      stored |-> <<>>, read |-> None, replacements |-> EmptyRecord ]

Min(a, b) == IF a <= b THEN a ELSE b

Take(s, n) == SubSeq(s, 1, Min(n, Len(s)))

Range(s) == {s[i] : i \in 1..Len(s)}

\* ----------------------------------------------------------------- state
VARIABLES
    tasks,      \* document_generation_tasks: row of task id i at tasks[i]
    clock,      \* latest reading of the wall clock (Date.now()) by any invocation
    batchSize,  \* process.env.TASK_BATCH_SIZE
    inv,        \* per invocation: locals of processDocumentTasks/processSingleTask
    pendingClaims, \* history: number of pending-conditioned updates that affected the row
    rows,       \* ids of the task rows the behaviour follows
    call,       \* GoogleDocsService: the operation in progress and its remote calls
    isInitialized, \* GoogleDocsService.isInitialized
    mappings,   \* document_template_mappings: rows of the template, by created_at
    reply       \* what the last call on the mappings was given and returned

vars == <<tasks, clock, batchSize, inv, pendingClaims, rows, call, isInitialized, mappings, reply>>

TaskIds == 1..Len(tasks)

\* ------------------------------------------------------------ row updates
\* insert of createDocumentTask; columns not named take the table defaults
NewTaskRow(participantIds, outputDriveFolderId, seqNo) ==
    [ participant_ids |-> participantIds,
      status          |-> "pending",
      progress_total  |-> Len(participantIds),
      progress_done   |-> 0,
      output_drive_folder_id |-> outputDriveFolderId,
      output_files    |-> None,
      error           |-> None,
      locked_at       |-> None,
      locked_by       |-> None,
      created_at      |-> seqNo ]

\* mutant of HasDuplicates: the list is not checked
HasDuplicates_Never(ids) == FALSE

\* participantIds.length !== new Set(participantIds).size
HasDuplicates(ids) == Len(ids) # Cardinality(Range(ids))

\* mutant of ClaimUpdate: the claim starts the task over
ClaimUpdate_ResetProgress(row, now) ==
    [row EXCEPT !.status = "processing",
                !.locked_at = Some(now),
                !.locked_by = Some("cron-runner"),
                !.progress_done = 0,
                !.output_files = None]

\* mutant of ClaimUpdate: the update leaves locked_by out
ClaimUpdate_NoOwner(row, now) ==
    [row EXCEPT !.status = "processing", !.locked_at = Some(now)]

\* .update({status:'processing', locked_at: now, locked_by}) of the claim loop
ClaimUpdate(row, now) ==
    [row EXCEPT !.status = "processing",
                !.locked_at = Some(now),
                !.locked_by = Some("cron-runner")]

\* mutant of PendingCondition: the update is filtered by id only
PendingCondition_IdOnly(row) == TRUE

\* .eq('status','pending') of the claim of a pending candidate
PendingCondition(row) == row.status = "pending"

\* mutant of ReclaimCondition: the filter on locked_at is left out
ReclaimCondition_NoLockFilter(row, threshold) == row.status = "processing"

\* .eq('status','processing').lt('locked_at', threshold) of a reclaim
ReclaimCondition(row, threshold) ==
    /\ row.status = "processing"
    /\ row.locked_at # None
    /\ row.locked_at[1] < threshold

\* mutant of FailTaskUpdate: the lock fields are not cleared
FailTaskUpdate_KeepLock(row, message) ==
    [row EXCEPT !.status = "failed", !.error = Some(message)]

\* task-level failure update (template not found / participants unresolvable)
FailTaskUpdate(row, message) ==
    [row EXCEPT !.status = "failed",
                !.error = Some(message),
                !.locked_at = None,
                !.locked_by = None]

\* progress update written after a participant
ProgressUpdate(row, progressDone, outputFiles) ==
    [row EXCEPT !.progress_done = progressDone,
                !.output_files = Some(outputFiles)]

\* mutant of FinalUpdate: the overall error message is stored for done too
FinalUpdate_AlwaysMessage(row, hasErrors, progressDone, outputFiles) ==
    [row EXCEPT !.status = IF hasErrors THEN "failed" ELSE "done",
                !.progress_done = progressDone,
                !.output_files = Some(outputFiles),
                !.error = Some("participant_errors"),
                !.locked_at = None,
                !.locked_by = None]

\* mutant of FinalUpdate: locked_by is not cleared
FinalUpdate_KeepOwner(row, hasErrors, progressDone, outputFiles) ==
    [row EXCEPT !.status = IF hasErrors THEN "failed" ELSE "done",
                !.progress_done = progressDone,
                !.output_files = Some(outputFiles),
                !.error = IF hasErrors THEN Some("participant_errors") ELSE None,
                !.locked_at = None]

\* final update of processSingleTask
FinalUpdate(row, hasErrors, progressDone, outputFiles) ==
    [row EXCEPT !.status = IF hasErrors THEN "failed" ELSE "done",
                !.progress_done = progressDone,
                !.output_files = Some(outputFiles),
                !.error = IF hasErrors THEN Some("participant_errors") ELSE None,
                !.locked_at = None,
                !.locked_by = None]

\* the columns of the task row that processSingleTask selects and later reads
FetchedTask(row) ==
    [ participant_ids |-> row.participant_ids, output_files |-> row.output_files,
      output_drive_folder_id |-> row.output_drive_folder_id ]

\* mutant of FolderId: the configured default wins over the folder of the task
FolderId_DefaultFirst(taskFolderId, defaultFolderId) ==
    IF defaultFolderId # None THEN defaultFolderId ELSE taskFolderId

\* task.output_drive_folder_id || defaultFolderId
FolderId(taskFolderId, defaultFolderId) ==
    IF taskFolderId # None THEN taskFolderId ELSE defaultFolderId

\* task.output_files || []
InitialOutputFiles(loaded) ==
    IF loaded.output_files = None THEN <<>> ELSE loaded.output_files[1]

\* mutant of InitialProgressDone: the counter resumes from the stored entries
InitialProgressDone_Resume(loaded) == Len(InitialOutputFiles(loaded))

\* let progressDone = task.progress_done || 0, where the select of the task
\* row does not fetch progress_done (the field is undefined)
InitialProgressDone(loaded) == 0

\* mutant of FirstParticipantIndex: the loop resumes after the stored entries
FirstParticipantIndex_Resume(loaded) == Len(InitialOutputFiles(loaded)) + 1

\* for (const participantId of participantIds): the loop starts at the first
\* id of the list, whatever the row has stored
FirstParticipantIndex(loaded) == 1

\* ------------------------------------------------------- candidate scan
Snapshot(t) ==
    [ id |-> t, status |-> tasks[t].status,
      locked_at |-> tasks[t].locked_at, created_at |-> tasks[t].created_at ]

\* ids of S in ascending created_at
RECURSIVE OrderByCreated(_)
OrderByCreated(S) ==
    IF S = {} THEN <<>>
    ELSE LET t == CHOOSE x \in S : \A y \in S : tasks[x].created_at <= tasks[y].created_at
         IN <<t>> \o OrderByCreated(S \ {t})

SnapshotsOf(ids) == [i \in 1..Len(ids) |-> Snapshot(ids[i])]

\* select ... eq('status','pending') order(created_at) limit(batchSize*2)
PendingQuery ==
    SnapshotsOf(Take(OrderByCreated({t \in TaskIds : tasks[t].status = "pending"}),
                     batchSize * 2))

\* select ... eq('status','processing') lt('locked_at', threshold) order limit
StaleQuery(threshold) ==
    SnapshotsOf(Take(OrderByCreated({t \in TaskIds : ReclaimCondition(tasks[t], threshold)}),
                     batchSize * 2))

\* Array.from(new Map(all.map(t => [t.id, t])).values()): first position of
\* an id, last value stored for it
RECURSIVE LastWithId(_, _)
LastWithId(s, id) ==
    IF s[Len(s)].id = id THEN s[Len(s)] ELSE LastWithId(SubSeq(s, 1, Len(s) - 1), id)

RECURSIVE UniqueById(_, _)
UniqueById(s, all) ==
    IF s = <<>> THEN <<>>
    ELSE LET rest == UniqueById(SubSeq(s, 1, Len(s) - 1), all)
             last == s[Len(s)]
         IN IF \E i \in 1..(Len(s) - 1) : s[i].id = last.id
            THEN rest
            ELSE Append(rest, LastWithId(all, last.id))

\* stable insertion sort on created_at
RECURSIVE InsertByCreated(_, _)
InsertByCreated(s, x) ==
    IF s = <<>> THEN <<x>>
    ELSE IF s[Len(s)].created_at <= x.created_at THEN Append(s, x)
    ELSE Append(InsertByCreated(SubSeq(s, 1, Len(s) - 1), x), s[Len(s)])

\* mutant of SortByCreated: the merged list is left as concatenated
SortByCreated_Unsorted(s) == s

\* uniqueTasks.sort((a, b) => created_at of a - created_at of b)
RECURSIVE SortByCreated(_)
SortByCreated(s) ==
    IF s = <<>> THEN <<>>
    ELSE InsertByCreated(SortByCreated(SubSeq(s, 1, Len(s) - 1)), s[Len(s)])

\* mutant of CandidateTasks: the merged list is not cut to batchSize * 2
CandidateTasks_NoSlice(pendingTasks, staleTasks) ==
    LET all == pendingTasks \o staleTasks
    IN SortByCreated(UniqueById(all, all))

\* merge of the two selects: unique by id, sorted, first batchSize * 2
CandidateTasks(pendingTasks, staleTasks) ==
    LET all == pendingTasks \o staleTasks
    IN Take(SortByCreated(UniqueById(all, all)), batchSize * 2)

\* ------------------------------------------------------ invocation locals
\* locals of one iteration of the participant loop: where the iteration is
\* (the lookup, the provider operation to call next, the progress update),
\* participant (the result of the lookup), folderId, docFileId and pdfFileId,
\* whether the catch block ran, and the provider operations called so far
IdleIteration ==
    [ stage |-> "lookup", participant |-> "none",
      defaultFolderId |-> None, folderId |-> None,
      docFileId |-> None, pdfFileId |-> None,
      failed |-> FALSE, calling |-> FALSE, steps |-> <<>> ]

IdleInvocation ==
    [ pc |-> "idle", now |-> 0, threshold |-> 0,
      pendingTasks |-> <<>>, pendingError |-> FALSE,
      candidates |-> <<>>, idx |-> 1,
      claimed |-> <<>>, claimResults |-> <<>>,
      pidx |-> 1, processed |-> <<>>,
      loaded |-> None, outputFiles |-> <<>>, progressDone |-> 0,
      hasErrors |-> FALSE, k |-> 1, iter |-> IdleIteration, returned |-> "none" ]

\* the invocation has returned (returned = "ok") or thrown ("error"); its
\* locals stay observable until the slot is taken by the next invocation
Returned(r, how) ==
    [r EXCEPT !.pc = "idle", !.now = 0, !.threshold = 0,
              !.pendingTasks = <<>>, !.pendingError = FALSE, !.returned = how]

\* ------------------------------------------------------ provider client
\* withRetry: default attempt cap, attempt cap passed by deleteFile, base delay
DefaultMaxAttempts == 6
DeleteMaxAttempts == 4
BaseDelayMs == 500

\* errors a remote call of the Google client raises: code, reason of the
\* first error detail, and what the message contains
NoError == [ status |-> 0, reason |-> "none", message |-> "none" ]

RemoteErrors ==
    { [ status |-> 429, reason |-> "none", message |-> "other" ],
      [ status |-> 503, reason |-> "none", message |-> "other" ],
      [ status |-> 403, reason |-> "userRateLimitExceeded", message |-> "other" ],
      [ status |-> 403, reason |-> "forbidden", message |-> "permission" ],
      [ status |-> 404, reason |-> "notFound", message |-> "not found" ],
      [ status |-> 400, reason |-> "badRequest", message |-> "export" ] }

IsRetryableDriveError(error) ==
    \/ error.status \in {429, 500, 502, 503, 504}
    \/ error.reason \in { "rateLimitExceeded", "userRateLimitExceeded",
                           "dailyLimitExceeded", "backendError" }

\* mutant of RetryDelay: the delay grows linearly
RetryDelay_Linear(baseDelayMs, attempt) == baseDelayMs * attempt

\* Math.round(baseDelayMs * Math.pow(2, attempt - 1))
RetryDelay(baseDelayMs, attempt) == baseDelayMs * 2 ^ (attempt - 1)

\* public operations of GoogleDocsService
PipelineOperations ==
    { "copyTemplateDoc", "replacePlaceholders", "exportPdf", "uploadPdfToDrive" }

Operations == PipelineOperations \cup { "deleteFile", "getAccountUsageDebug" }

\* operations whose remote call is passed to withRetry
RetriedOperations == { "deleteFile", "getAccountUsageDebug" }

MaxAttemptsOf(op) == IF op = "deleteFile" THEN DeleteMaxAttempts ELSE DefaultMaxAttempts

\* remote calls an operation makes when none fails: replacePlaceholders reads
\* the document and, if there is a replacement, sends one batchUpdate
RemoteCalls(op, hasReplacements) ==
    IF op = "replacePlaceholders" /\ hasReplacements THEN 2 ELSE 1

\* what the caller of an operation gets
NoResult == [ kind |-> "none", exception |-> "none", cause |-> NoError, message |-> "none" ]

Value == [ kind |-> "value", exception |-> "none", cause |-> NoError, message |-> "none" ]

\* the error of the remote call itself
Thrown(error) ==
    [ kind |-> "thrown", exception |-> "remote", cause |-> error, message |-> error.message ]

\* ensureInitialized
NotConfigured ==
    [ kind |-> "thrown", exception |-> "InternalServerErrorException",
      cause |-> NoError, message |-> "not configured" ]

\* the response of copy or create carries no file id
NoFileId == [ status |-> 0, reason |-> "none", message |-> "no file id" ]

\* catch block of copyTemplateDoc, replacePlaceholders, exportPdf and
\* uploadPdfToDrive: a new InternalServerErrorException replaces the error
WrappedError(op, error) ==
    [ kind |-> "thrown", exception |-> "InternalServerErrorException", cause |-> error,
      message |-> IF error.status = 403 \/ error.message = "permission" THEN "no permission"
                  ELSE IF error.status = 404 \/ error.message = "not found" THEN "not found"
                  ELSE IF op = "exportPdf" /\ error.message = "export" THEN "cannot export"
                  ELSE "operation failed" ]

\* no operation of GoogleDocsService in progress
IdleCall ==
    [ pc |-> "idle", op |-> "none", retry |-> FALSE, maxAttempts |-> 0,
      remaining |-> 0, attempt |-> 0, invocations |-> 0,
      errors |-> <<>>, delays |-> <<>>, retryResult |-> NoResult, result |-> NoResult ]

Init ==
    /\ tasks = <<>>
    /\ clock = 0
    /\ batchSize \in BatchSizes
    /\ inv = [w \in Workers |-> IdleInvocation]
    /\ pendingClaims = <<>>
    /\ rows = Rows
    /\ call = IdleCall
    /\ isInitialized = TRUE
    /\ mappings = <<>>
    /\ reply = NoReply

\* ---------------------------------------------------------------- actions
\* createDocumentTask (access and template checks are collaborators)
CreateDocumentTask(participantIds, outputDriveFolderId) ==
    /\ Len(tasks) + 1 \in rows
    /\ IF HasDuplicates(participantIds)
       THEN UNCHANGED <<tasks, pendingClaims>>
       ELSE /\ tasks' = Append(tasks, NewTaskRow(participantIds, outputDriveFolderId, Len(tasks) + 1))
            /\ pendingClaims' = Append(pendingClaims, 0)
    /\ UNCHANGED <<clock, batchSize, inv, rows, call, isInitialized, mappings, reply>>

\* processDocumentTasks up to and including the select of pending tasks;
\* time = Date.now(), which never runs backwards;
\* ok = FALSE: the store answers the query with an error
ScanPending(w, time, ok) ==
    /\ inv[w].pc = "idle"
    /\ \A v \in Workers : v < w => inv[v].pc # "idle"   \* first free slot
    /\ time >= clock
    /\ clock' = time
    /\ inv' = [inv EXCEPT ![w] =
                 [IdleInvocation EXCEPT !.pc = "scanStale",
                                        !.now = time,
                                        !.threshold = time - LockTimeout,
                                        !.pendingTasks = IF ok THEN PendingQuery ELSE <<>>,
                                        !.pendingError = ~ok]]
    /\ UNCHANGED <<tasks, batchSize, pendingClaims, rows, call, isInitialized, mappings, reply>>

\* the select of stale tasks, the error check, the merge of the candidates
\* and the early return when there is none;
\* cut = TRUE: older rows of other tasks fill the limit of batchSize * 2, no
\* followed row is among the candidates and the invocation never touches one
ScanStale(w, ok, cut) ==
    /\ inv[w].pc = "scanStale"
    /\ LET r == inv[w]
           cands == CandidateTasks(r.pendingTasks, StaleQuery(r.threshold))
       IN inv' = [inv EXCEPT ![w] =
            IF r.pendingError \/ ~ok
            THEN Returned(r, "error")
            ELSE IF cands = <<>> \/ cut
            THEN Returned(r, "ok")
            ELSE [r EXCEPT !.pc = "claim", !.pendingTasks = <<>>,
                           !.candidates = cands, !.idx = 1]]
    /\ UNCHANGED <<tasks, clock, batchSize, pendingClaims, rows, call, isInitialized, mappings, reply>>

\* mutant of AfterClaim: an update that affected no row fails the invocation
AfterClaim_ThrowOnZeroRows(r) ==
    IF r.claimResults[Len(r.claimResults)] = "zero_rows"
    THEN Returned(r, "error")
    ELSE IF r.idx <= Len(r.candidates) /\ Len(r.claimed) < batchSize
    THEN r
    ELSE IF r.claimed = <<>>
    THEN Returned(r, "ok")
    ELSE [r EXCEPT !.pc = "fetch", !.pidx = 1]

\* end of the claim loop: go on to the first claimed task, or return
AfterClaim(r) ==
    IF r.idx <= Len(r.candidates) /\ Len(r.claimed) < batchSize
    THEN r
    ELSE IF r.claimed = <<>>
    THEN Returned(r, "ok")
    ELSE [r EXCEPT !.pc = "fetch", !.pidx = 1]

\* one iteration of the claim loop: the conditional update of one candidate;
\* ok = FALSE: the store answers the update with an error;
\* full = TRUE: rows of other tasks claimed earlier in the loop have filled
\* the batch, the loop breaks before the candidate
ClaimAttempt(w, ok, full) ==
    /\ inv[w].pc = "claim"
    /\ LET r == inv[w]
           cand == r.candidates[r.idx]
           t == cand.id
           isPending == cand.status = "pending"
           isStale == /\ cand.status = "processing"
                      /\ cand.locked_at # None
                      /\ cand.locked_at[1] < r.threshold
           affected == IF isPending THEN PendingCondition(tasks[t])
                       ELSE ReclaimCondition(tasks[t], r.threshold)
       IN IF full
          THEN /\ inv' = [inv EXCEPT ![w] =
                     LET r1 == [r EXCEPT !.claimResults = Append(r.claimResults, "batch_full")]
                     IN IF r1.claimed = <<>>
                        THEN Returned(r1, "ok")
                        ELSE [r1 EXCEPT !.pc = "fetch", !.pidx = 1]]
               /\ UNCHANGED <<tasks, pendingClaims>>
          ELSE IF ~isPending /\ ~isStale
          THEN /\ inv' = [inv EXCEPT ![w] =
                     AfterClaim([r EXCEPT !.idx = r.idx + 1,
                                          !.claimResults = Append(r.claimResults, "skipped")])]
               /\ UNCHANGED <<tasks, pendingClaims>>
          ELSE IF ~ok
          THEN /\ inv' = [inv EXCEPT ![w] =
                     AfterClaim([r EXCEPT !.idx = r.idx + 1, !.claimResults = Append(r.claimResults, "error")])]
               /\ UNCHANGED <<tasks, pendingClaims>>
          ELSE IF affected
          THEN /\ tasks' = [tasks EXCEPT ![t] = ClaimUpdate(tasks[t], r.now)]
               /\ pendingClaims' = [pendingClaims EXCEPT ![t] =
                                       IF isPending THEN @ + 1 ELSE @]
               /\ inv' = [inv EXCEPT ![w] =
                     AfterClaim([r EXCEPT !.idx = r.idx + 1,
                                          !.claimed = Append(r.claimed, t),
                                          !.claimResults = Append(r.claimResults, "claimed")])]
          ELSE \* .single() on zero rows yields an error object: warn, continue
               /\ inv' = [inv EXCEPT ![w] =
                     AfterClaim([r EXCEPT !.idx = r.idx + 1, !.claimResults = Append(r.claimResults, "zero_rows")])]
               /\ UNCHANGED <<tasks, pendingClaims>>
    /\ UNCHANGED <<clock, batchSize, rows, call, isInitialized, mappings, reply>>

\* task currently run by the pipeline of w
CurrentTask(w) == inv[w].claimed[inv[w].pidx]

\* mutant of AfterTask: a pipeline run that throws ends the processing loop
AfterTask_AbortOnFailure(r, success) ==
    LET r1 == [r EXCEPT !.processed = IF success THEN Append(r.processed, r.claimed[r.pidx])
                                                 ELSE r.processed,
                        !.pidx = r.pidx + 1,
                        !.loaded = None, !.outputFiles = <<>>, !.progressDone = 0,
                        !.hasErrors = FALSE, !.k = 1]
    IN IF r1.pidx <= Len(r1.claimed) /\ success
       THEN [r1 EXCEPT !.pc = "fetch"]
       ELSE Returned(r1, "ok")

\* mutant of AfterTask: a pipeline run that throws is counted as processed
AfterTask_CountThrown(r, success) ==
    LET r1 == [r EXCEPT !.processed = Append(r.processed, r.claimed[r.pidx]),
                        !.pidx = r.pidx + 1,
                        !.loaded = None, !.outputFiles = <<>>, !.progressDone = 0,
                        !.hasErrors = FALSE, !.k = 1]
    IN IF r1.pidx <= Len(r1.claimed)
       THEN [r1 EXCEPT !.pc = "fetch"]
       ELSE Returned(r1, "ok")

\* end of one iteration of the processing loop of processDocumentTasks
AfterTask(r, success) ==
    LET r1 == [r EXCEPT !.processed = IF success THEN Append(r.processed, r.claimed[r.pidx])
                                                 ELSE r.processed,
                        !.pidx = r.pidx + 1,
                        !.loaded = None, !.outputFiles = <<>>, !.progressDone = 0,
                        !.hasErrors = FALSE, !.k = 1]
    IN IF r1.pidx <= Len(r1.claimed)
       THEN [r1 EXCEPT !.pc = "fetch"]
       ELSE Returned(r1, "ok")

\* mutant of FetchFailed: the task is set to failed before the error is thrown
FetchFailed_SetsFailed(w) ==
    /\ inv[w].pc = "fetch"
    /\ LET t == CurrentTask(w)
       IN tasks' = [tasks EXCEPT ![t] = FailTaskUpdate(tasks[t], "fetch_failed")]
    /\ inv' = [inv EXCEPT ![w] = AfterTask(inv[w], FALSE)]
    /\ UNCHANGED <<clock, batchSize, pendingClaims, rows, call, isInitialized, mappings, reply>>

\* processSingleTask: the select of the task row fails, the error is thrown
FetchFailed(w) ==
    /\ inv[w].pc = "fetch"
    /\ inv' = [inv EXCEPT ![w] = AfterTask(inv[w], FALSE)]
    /\ UNCHANGED <<tasks, clock, batchSize, pendingClaims, rows, call, isInitialized, mappings, reply>>

\* template row missing: task set to failed, error thrown
TemplateNotFound(w) ==
    /\ inv[w].pc = "fetch"
    /\ LET t == CurrentTask(w)
       IN tasks' = [tasks EXCEPT ![t] = FailTaskUpdate(tasks[t], "template_not_found")]
    /\ inv' = [inv EXCEPT ![w] = AfterTask(inv[w], FALSE)]
    /\ UNCHANGED <<clock, batchSize, pendingClaims, rows, call, isInitialized, mappings, reply>>

\* getParticipantsForProject throws: task set to failed, error rethrown
ParticipantsUnresolvable(w) ==
    /\ inv[w].pc = "fetch"
    /\ LET t == CurrentTask(w)
       IN tasks' = [tasks EXCEPT ![t] = FailTaskUpdate(tasks[t], "participants_unresolvable")]
    /\ inv' = [inv EXCEPT ![w] = AfterTask(inv[w], FALSE)]
    /\ UNCHANGED <<clock, batchSize, pendingClaims, rows, call, isInitialized, mappings, reply>>

\* the select of the task row succeeds, template, mappings and participants
\* are resolved and the state of the participant loop is initialised
LoadTask(w) ==
    /\ inv[w].pc = "fetch"
    /\ LET r == inv[w]
           t == CurrentTask(w)
           loaded == FetchedTask(tasks[t])
       IN inv' = [inv EXCEPT ![w] =
            [r EXCEPT !.loaded = Some(loaded),
                      !.outputFiles = InitialOutputFiles(loaded),
                      !.progressDone = InitialProgressDone(loaded),
                      !.hasErrors = FALSE,
                      !.k = FirstParticipantIndex(loaded),
                      !.pc = IF FirstParticipantIndex(loaded) <= Len(loaded.participant_ids)
                             THEN "participant" ELSE "finalize"]]
    /\ UNCHANGED <<tasks, clock, batchSize, pendingClaims, rows, call, isInitialized, mappings, reply>>

\* mutant of AfterParticipant: a failed participant ends the loop
AfterParticipant_StopOnError(r) ==
    IF r.k + 1 <= Len(r.loaded[1].participant_ids) /\ ~r.hasErrors
    THEN [r EXCEPT !.k = r.k + 1, !.pc = "participant", !.iter = IdleIteration]
    ELSE [r EXCEPT !.k = r.k + 1, !.pc = "finalize", !.iter = IdleIteration]

\* next position of the participant loop, with fresh iteration locals
AfterParticipant(r) ==
    IF r.k + 1 <= Len(r.loaded[1].participant_ids)
    THEN [r EXCEPT !.k = r.k + 1, !.pc = "participant", !.iter = IdleIteration]
    ELSE [r EXCEPT !.k = r.k + 1, !.pc = "finalize", !.iter = IdleIteration]

\* outcomes of one iteration of the participant loop
Outcomes == {"ok", "missing", "step_failed"}

\* mutant of OutputEntry: the entry of a missing participant carries no error
OutputEntry_MissingNoError(participantId, outcome) ==
    [ participantId |-> participantId,
      docFileId |-> IF outcome \in {"ok", "step_failed"} THEN Some("doc") ELSE None,
      pdfFileId |-> IF outcome = "ok" THEN "pdf" ELSE "",
      error |-> CASE outcome \in {"ok", "missing"} -> None
                  [] outcome \in {"copy_failed", "step_failed"} -> Some("provider")
                  [] outcome = "thrown" -> Some("thrown") ]

\* the entry pushed to outputFiles for an outcome
OutputEntry(participantId, outcome) ==
    CASE outcome = "ok" ->
           [ participantId |-> participantId, docFileId |-> Some("doc"),
             pdfFileId |-> "pdf", error |-> None ]
      [] outcome = "missing" ->
           [ participantId |-> participantId, docFileId |-> None,
             pdfFileId |-> "", error |-> Some("not_found") ]
      [] outcome = "copy_failed" ->
           [ participantId |-> participantId, docFileId |-> None,
             pdfFileId |-> "", error |-> Some("provider") ]
      [] outcome = "step_failed" ->
           [ participantId |-> participantId, docFileId |-> Some("doc"),
             pdfFileId |-> "", error |-> Some("provider") ]
      [] outcome = "thrown" ->
           [ participantId |-> participantId, docFileId |-> None,
             pdfFileId |-> "", error |-> Some("thrown") ]

\* one iteration of the participant loop: lookup, replacements, provider
\* pipeline, push of the entry and, unless the lookup failed (continue),
\* the update of progress_done and output_files
ProcessParticipant(w, outcome) ==
    /\ inv[w].pc = "participant"
    /\ LET r == inv[w]
           t == CurrentTask(w)
           participantId == r.loaded[1].participant_ids[r.k]
           r1 == [r EXCEPT !.outputFiles = Append(r.outputFiles,
                                                  OutputEntry(participantId, outcome)),
                           !.hasErrors = r.hasErrors \/ outcome # "ok",
                           !.progressDone = r.progressDone + 1]
       IN /\ inv' = [inv EXCEPT ![w] = AfterParticipant(r1)]
          /\ IF outcome = "missing"
             THEN UNCHANGED tasks
             ELSE tasks' = [tasks EXCEPT ![t] =
                              ProgressUpdate(tasks[t], r1.progressDone, r1.outputFiles)]
    /\ UNCHANGED <<clock, batchSize, pendingClaims, rows, call, isInitialized, mappings, reply>>

\* final status update of processSingleTask
FinalizeTask(w) ==
    /\ inv[w].pc = "finalize"
    /\ LET r == inv[w]
           t == CurrentTask(w)
       IN /\ tasks' = [tasks EXCEPT ![t] =
                          FinalUpdate(tasks[t], r.hasErrors, r.progressDone, r.outputFiles)]
          /\ inv' = [inv EXCEPT ![w] = AfterTask(r, TRUE)]
    /\ UNCHANGED <<clock, batchSize, pendingClaims, rows, call, isInitialized, mappings, reply>>

Next ==
    \/ \E ids \in ParticipantLists : CreateDocumentTask(ids, None)
    \/ \E w \in Workers, time \in 0..MaxTime, ok \in BOOLEAN : ScanPending(w, time, ok)
    \/ \E w \in Workers, ok, cut \in BOOLEAN : ScanStale(w, ok, cut)
    \/ \E w \in Workers, ok, full \in BOOLEAN : ClaimAttempt(w, ok, full)
    \/ \E w \in Workers : FetchFailed(w)
    \/ \E w \in Workers : TemplateNotFound(w)
    \/ \E w \in Workers : ParticipantsUnresolvable(w)
    \/ \E w \in Workers : LoadTask(w)
    \/ \E w \in Workers, o \in Outcomes : ProcessParticipant(w, o)
    \/ \E w \in Workers : FinalizeTask(w)

Spec == Init /\ [][Next]_vars

\* ------------------------------------------------ provider client steps
\* mutant of StartOperation: the operation does not call ensureInitialized
StartOperation_NoCheck(op, initialized, hasReplacements) ==
    /\ call.pc \in {"idle", "done"}
    /\ call' = [IdleCall EXCEPT !.pc = "remote", !.op = op,
                                !.retry = op \in RetriedOperations,
                                !.maxAttempts = IF op \in RetriedOperations
                                                THEN MaxAttemptsOf(op) ELSE 0,
                                !.remaining = RemoteCalls(op, hasReplacements),
                                !.attempt = 1]
    /\ UNCHANGED <<tasks, clock, batchSize, inv, pendingClaims, rows, isInitialized, mappings, reply>>

\* an operation is called: ensureInitialized, then its first remote call
StartOperation(op, initialized, hasReplacements) ==
    /\ call.pc \in {"idle", "done"}
    /\ call' = IF ~initialized
               THEN [IdleCall EXCEPT !.pc = "done", !.op = op, !.result = NotConfigured]
               ELSE [IdleCall EXCEPT !.pc = "remote", !.op = op,
                                     !.retry = op \in RetriedOperations,
                                     !.maxAttempts = IF op \in RetriedOperations
                                                     THEN MaxAttemptsOf(op) ELSE 0,
                                     !.remaining = RemoteCalls(op, hasReplacements),
                                     !.attempt = 1]
    /\ UNCHANGED <<tasks, clock, batchSize, inv, pendingClaims, rows, isInitialized, mappings, reply>>

\* the remote call returns; hasId = FALSE: the response of a copy or an
\* upload has no file id, the operation throws inside its own try block
RemoteReturns(hasId) ==
    /\ call.pc = "remote"
    /\ hasId \/ call.op \in {"copyTemplateDoc", "uploadPdfToDrive"}
    /\ call' =
         LET c == [call EXCEPT !.invocations = call.invocations + 1,
                               !.retryResult = IF call.retry THEN Value ELSE NoResult]
         IN IF ~hasId
            THEN [c EXCEPT !.pc = "done", !.result = WrappedError(call.op, NoFileId)]
            ELSE IF call.remaining > 1
            THEN [c EXCEPT !.remaining = call.remaining - 1, !.attempt = 1]
            ELSE [c EXCEPT !.pc = "done", !.remaining = 0, !.result = Value]
    /\ UNCHANGED <<tasks, clock, batchSize, inv, pendingClaims, rows, isInitialized, mappings, reply>>

\* mutant of RemoteFails: withRetry gives up one attempt later
RemoteFails_OneMoreAttempt(error) ==
    /\ call.pc = "remote"
    /\ call' =
         LET c == [call EXCEPT !.invocations = call.invocations + 1,
                               !.errors = Append(call.errors, error)]
         IN IF ~call.retry
            THEN [c EXCEPT !.pc = "done", !.result = WrappedError(call.op, error)]
            ELSE IF ~IsRetryableDriveError(error) \/ call.attempt = call.maxAttempts + 1
            THEN [c EXCEPT !.pc = "done",
                           !.retryResult = Thrown(error),
                           !.result = IF call.op = "deleteFile" THEN Value ELSE Thrown(error)]
            ELSE [c EXCEPT !.delays = Append(call.delays, RetryDelay(BaseDelayMs, call.attempt)),
                           !.attempt = call.attempt + 1]
    /\ UNCHANGED <<tasks, clock, batchSize, inv, pendingClaims, rows, isInitialized, mappings, reply>>

\* the remote call raises error: the catch of withRetry (rethrow, or sleep
\* and next attempt) where the call runs under it, then the catch block of
\* the operation
RemoteFails(error) ==
    /\ call.pc = "remote"
    /\ call' =
         LET c == [call EXCEPT !.invocations = call.invocations + 1,
                               !.errors = Append(call.errors, error)]
         IN IF ~call.retry
            THEN [c EXCEPT !.pc = "done", !.result = WrappedError(call.op, error)]
            ELSE IF ~IsRetryableDriveError(error) \/ call.attempt = call.maxAttempts
            THEN [c EXCEPT !.pc = "done",
                           !.retryResult = Thrown(error),
                           !.result = IF call.op = "deleteFile" THEN Value ELSE Thrown(error)]
            ELSE [c EXCEPT !.delays = Append(call.delays, RetryDelay(BaseDelayMs, call.attempt)),
                           !.attempt = call.attempt + 1]
    /\ UNCHANGED <<tasks, clock, batchSize, inv, pendingClaims, rows, isInitialized, mappings, reply>>

ClientNext ==
    \/ \E op \in Operations, hasReplacements \in BOOLEAN :
          StartOperation(op, isInitialized, hasReplacements)
    \/ \E hasId \in BOOLEAN : RemoteReturns(hasId)
    \/ \E error \in RemoteErrors : RemoteFails(error)

\* onModuleInit has run: the OAuth2 client was set up, or it was not
ClientInit ==
    /\ tasks = <<>>
    /\ clock = 0
    /\ batchSize \in BatchSizes
    /\ inv = [w \in Workers |-> IdleInvocation]
    /\ pendingClaims = <<>>
    /\ rows = Rows
    /\ call = IdleCall
    /\ isInitialized \in BOOLEAN
    /\ mappings = <<>>
    /\ reply = NoReply

ClientSpec == ClientInit /\ [][ClientNext]_vars

\* every remote call is answered in the end, by a value or by an error
\* (await fn() of withRetry resumes), and the sleep between attempts ends
ClientFairSpec ==
    /\ ClientSpec
    /\ WF_vars((\E hasId \in BOOLEAN : RemoteReturns(hasId))
               \/ (\E error \in RemoteErrors : RemoteFails(error)))

\* ------------------------------------------- one invocation, several tasks
\* Every task of the table is a followed row and one invocation runs at a
\* time: the scan limit, the batch and the processing loop work on the rows
\* themselves, and every path of the participant loop is an outcome.
PipelineRows == {1, 2}
PipelineWorkers == {1}
PipelineBatchSizes == {1, 2}
PipelineLists == {<<1>>, <<1, 2, 3>>, <<3, 3>>}
\* clock readings: a lock left behind by an invocation is stale at the later one
PipelineTimes == {0, 2}
PipelineOutcomes == {"ok", "missing", "copy_failed", "step_failed", "thrown"}

PipelineInit ==
    /\ tasks = <<>>
    /\ clock = 0
    /\ batchSize \in PipelineBatchSizes
    /\ inv = [w \in Workers |-> IdleInvocation]
    /\ pendingClaims = <<>>
    /\ rows = PipelineRows
    /\ call = IdleCall
    /\ isInitialized = TRUE
    /\ mappings = <<>>
    /\ reply = NoReply

PipelineNext ==
    \/ \E ids \in PipelineLists : CreateDocumentTask(ids, None)
    \/ \E w \in PipelineWorkers, time \in PipelineTimes, ok \in BOOLEAN : ScanPending(w, time, ok)
    \/ \E w \in PipelineWorkers, ok \in BOOLEAN : ScanStale(w, ok, FALSE)
    \/ \E w \in PipelineWorkers, ok \in BOOLEAN : ClaimAttempt(w, ok, FALSE)
    \/ \E w \in PipelineWorkers : FetchFailed(w)
    \/ \E w \in PipelineWorkers : TemplateNotFound(w)
    \/ \E w \in PipelineWorkers : ParticipantsUnresolvable(w)
    \/ \E w \in PipelineWorkers : LoadTask(w)
    \/ \E w \in PipelineWorkers, o \in PipelineOutcomes : ProcessParticipant(w, o)
    \/ \E w \in PipelineWorkers : FinalizeTask(w)

PipelineSpec == PipelineInit /\ [][PipelineNext]_vars

\* --------------------------------------- one participant, step by step
\* The iteration of the participant loop taken apart: the lookup of the
\* participant, every call of a GoogleDocsService operation (the call, the
\* remote calls of the operation, the return to the pipeline) and the
\* progress update are steps of their own.
IterationLists == {<<1>>, <<1, 2>>}
\* outputDriveFolderId of the request; DEFAULT_OUTPUT_DRIVE_FOLDER_ID
IterationFolders == {None, Some("task_folder")}
DefaultFolders == {None, Some("default_folder")}
\* the provider operations of the participant loop
IterationOperations == PipelineOperations \cup {"deleteFile"}

\* participantsData.find, buildReplacementsForParticipant,
\* generateFileNameForTask and the choice of the folder;
\* found = FALSE: no record has the id; prepared = FALSE: one of the two
\* helpers throws, which the catch of the loop body handles
LookupParticipant(w, found, prepared, defaultFolderId) ==
    /\ inv[w].pc = "participant"
    /\ inv[w].iter.stage = "lookup"
    /\ LET it == inv[w].iter
           taskFolderId == inv[w].loaded[1].output_drive_folder_id
       IN inv' = [inv EXCEPT ![w].iter =
            IF ~found
            THEN [it EXCEPT !.stage = "persist", !.participant = "missing"]
            ELSE IF ~prepared
            THEN [it EXCEPT !.stage = "persist", !.participant = "thrown"]
            ELSE [it EXCEPT !.stage = "copyTemplateDoc", !.participant = "found",
                            !.defaultFolderId = defaultFolderId,
                            !.folderId = FolderId(taskFolderId, defaultFolderId)]]
    /\ UNCHANGED <<tasks, clock, batchSize, pendingClaims, rows, call, isInitialized, mappings, reply>>

\* the arguments of the operation the pipeline calls at its stage
StepCall(it) ==
    [ op |-> it.stage,
      folderId |-> IF it.stage \in {"copyTemplateDoc", "uploadPdfToDrive"}
                   THEN it.folderId ELSE None,
      result |-> "running" ]

\* the pipeline calls the operation of its stage
BeginStep(w) ==
    /\ inv[w].pc = "participant"
    /\ inv[w].iter.stage \in IterationOperations
    /\ ~inv[w].iter.calling
    /\ call.pc \in {"idle", "done"}
    /\ inv' = [inv EXCEPT ![w].iter =
                 [@ EXCEPT !.calling = TRUE, !.steps = Append(@, StepCall(inv[w].iter))]]
    /\ call' = IdleCall
    /\ UNCHANGED <<tasks, clock, batchSize, pendingClaims, rows, isInitialized, mappings, reply>>

\* the operation called by the pipeline starts
CallOperation(w, hasReplacements) ==
    /\ inv[w].pc = "participant"
    /\ inv[w].iter.calling
    /\ call.pc = "idle"
    /\ StartOperation(inv[w].iter.stage, isInitialized, hasReplacements)

\* the operation returns to the pipeline or throws: next operation, catch
\* block, finally block (deleteFile if docFileId is set; what deleteFile
\* throws is swallowed)
CompleteStep(w) ==
    /\ inv[w].pc = "participant"
    /\ inv[w].iter.calling
    /\ call.pc = "done"
    /\ LET it == inv[w].iter
           op == it.stage
           ok == call.result.kind = "value"
           it1 == [it EXCEPT !.calling = FALSE,
                             !.steps[Len(it.steps)].result = IF ok THEN "returned" ELSE "threw"]
       IN inv' = [inv EXCEPT ![w].iter =
            IF op = "deleteFile"
            THEN [it1 EXCEPT !.stage = "persist"]
            ELSE IF ~ok
            THEN [it1 EXCEPT !.failed = TRUE,
                             !.stage = IF it.docFileId # None THEN "deleteFile" ELSE "persist"]
            ELSE CASE op = "copyTemplateDoc" ->
                        [it1 EXCEPT !.docFileId = Some("doc"), !.stage = "replacePlaceholders"]
                   [] op = "replacePlaceholders" -> [it1 EXCEPT !.stage = "exportPdf"]
                   [] op = "exportPdf" -> [it1 EXCEPT !.stage = "uploadPdfToDrive"]
                   [] op = "uploadPdfToDrive" ->
                        [it1 EXCEPT !.pdfFileId = Some("pdf"), !.stage = "deleteFile"]]
    /\ UNCHANGED <<tasks, clock, batchSize, pendingClaims, rows, call, isInitialized, mappings, reply>>

\* mutant of OutcomeOf: a deletion that failed turns the entry into an error
OutcomeOf_DeleteFailureCounts(it) ==
    CASE it.participant = "missing" -> "missing"
      [] it.participant = "thrown" -> "thrown"
      [] it.participant = "found" /\ it.failed /\ it.docFileId = None -> "copy_failed"
      [] it.participant = "found" /\ it.failed /\ it.docFileId # None -> "step_failed"
      [] it.participant = "found" /\ ~it.failed ->
           IF call.op = "deleteFile" /\ call.retryResult.kind = "thrown"
           THEN "step_failed" ELSE "ok"

\* the path the iteration took through the loop body
OutcomeOf(it) ==
    CASE it.participant = "missing" -> "missing"
      [] it.participant = "thrown" -> "thrown"
      [] it.participant = "found" /\ it.failed /\ it.docFileId = None -> "copy_failed"
      [] it.participant = "found" /\ it.failed /\ it.docFileId # None -> "step_failed"
      [] it.participant = "found" /\ ~it.failed -> "ok"

\* the push of the entry and the progress update end the iteration
FinishParticipant(w) ==
    /\ inv[w].pc = "participant"
    /\ inv[w].iter.stage = "persist"
    /\ ProcessParticipant(w, OutcomeOf(inv[w].iter))

IterationInit ==
    /\ tasks = <<>>
    /\ clock = 0
    /\ batchSize \in BatchSizes
    /\ inv = [w \in Workers |-> IdleInvocation]
    /\ pendingClaims = <<>>
    /\ rows = Rows
    /\ call = IdleCall
    /\ isInitialized \in BOOLEAN
    /\ mappings = <<>>
    /\ reply = NoReply

IterationNext ==
    \/ \E ids \in IterationLists, folder \in IterationFolders : CreateDocumentTask(ids, folder)
    \/ \E w \in PipelineWorkers, ok \in BOOLEAN : ScanPending(w, 0, ok)
    \/ \E w \in PipelineWorkers, ok \in BOOLEAN : ScanStale(w, ok, FALSE)
    \/ \E w \in PipelineWorkers, ok \in BOOLEAN : ClaimAttempt(w, ok, FALSE)
    \/ \E w \in PipelineWorkers : FetchFailed(w)
    \/ \E w \in PipelineWorkers : TemplateNotFound(w)
    \/ \E w \in PipelineWorkers : ParticipantsUnresolvable(w)
    \/ \E w \in PipelineWorkers : LoadTask(w)
    \/ \E w \in PipelineWorkers, found, prepared \in BOOLEAN, folder \in DefaultFolders :
          LookupParticipant(w, found, prepared, folder)
    \/ \E w \in PipelineWorkers : BeginStep(w)
    \/ \E w \in PipelineWorkers, hasReplacements \in BOOLEAN : CallOperation(w, hasReplacements)
    \/ \E hasId \in BOOLEAN : RemoteReturns(hasId)
    \/ \E error \in RemoteErrors : RemoteFails(error)
    \/ \E w \in PipelineWorkers : CompleteStep(w)
    \/ \E w \in PipelineWorkers : FinishParticipant(w)
    \/ \E w \in PipelineWorkers : FinalizeTask(w)

IterationSpec == IterationInit /\ [][IterationNext]_vars

\* ------------------------------------- the client was never initialised
\* initializeGoogleDocs returned early or failed: isInitialized stays false.
\* Besides the pipeline, any other caller may call a public operation.
DirectCall(op, hasReplacements) ==
    /\ \A w \in Workers : ~inv[w].iter.calling
    /\ StartOperation(op, isInitialized, hasReplacements)

UnconfiguredInit ==
    /\ tasks = <<>>
    /\ clock = 0
    /\ batchSize \in BatchSizes
    /\ inv = [w \in Workers |-> IdleInvocation]
    /\ pendingClaims = <<>>
    /\ rows = Rows
    /\ call = IdleCall
    /\ isInitialized = FALSE
    /\ mappings = <<>>
    /\ reply = NoReply

UnconfiguredNext ==
    \/ \E ids \in IterationLists, folder \in IterationFolders : CreateDocumentTask(ids, folder)
    \/ \E w \in PipelineWorkers, ok \in BOOLEAN : ScanPending(w, 0, ok)
    \/ \E w \in PipelineWorkers, ok \in BOOLEAN : ScanStale(w, ok, FALSE)
    \/ \E w \in PipelineWorkers, ok \in BOOLEAN : ClaimAttempt(w, ok, FALSE)
    \/ \E w \in PipelineWorkers : LoadTask(w)
    \/ \E w \in PipelineWorkers, found, prepared \in BOOLEAN, folder \in DefaultFolders :
          LookupParticipant(w, found, prepared, folder)
    \/ \E w \in PipelineWorkers : BeginStep(w)
    \/ \E w \in PipelineWorkers, hasReplacements \in BOOLEAN : CallOperation(w, hasReplacements)
    \/ \E w \in PipelineWorkers : CompleteStep(w)
    \/ \E w \in PipelineWorkers : FinishParticipant(w)
    \/ \E w \in PipelineWorkers : FinalizeTask(w)
    \/ \E op \in Operations, hasReplacements \in BOOLEAN : DirectCall(op, hasReplacements)

UnconfiguredSpec == UnconfiguredInit /\ [][UnconfiguredNext]_vars

\* ------------------------------------------- more tasks than the limits
\* Three tasks of two participants each, so that with a batch size of 1 the
\* table holds more eligible tasks than the scan limit, and a run that ends
\* at the select of its task leaves a lock behind that goes stale.
QueueRows == {1, 2, 3}
QueueLists == {<<2, 1>>}

QueueInit ==
    /\ tasks = <<>>
    /\ clock = 0
    /\ batchSize \in PipelineBatchSizes
    /\ inv = [w \in Workers |-> IdleInvocation]
    /\ pendingClaims = <<>>
    /\ rows = QueueRows
    /\ call = IdleCall
    /\ isInitialized = TRUE
    /\ mappings = <<>>
    /\ reply = NoReply

QueueNext ==
    \/ \E ids \in QueueLists : CreateDocumentTask(ids, None)
    \/ \E w \in PipelineWorkers, time \in PipelineTimes, ok \in BOOLEAN : ScanPending(w, time, ok)
    \/ \E w \in PipelineWorkers, ok \in BOOLEAN : ScanStale(w, ok, FALSE)
    \/ \E w \in PipelineWorkers, ok \in BOOLEAN : ClaimAttempt(w, ok, FALSE)
    \/ \E w \in PipelineWorkers : FetchFailed(w)
    \/ \E w \in PipelineWorkers : TemplateNotFound(w)
    \/ \E w \in PipelineWorkers : ParticipantsUnresolvable(w)
    \/ \E w \in PipelineWorkers : LoadTask(w)
    \/ \E w \in PipelineWorkers, o \in Outcomes : ProcessParticipant(w, o)
    \/ \E w \in PipelineWorkers : FinalizeTask(w)

QueueSpec == QueueInit /\ [][QueueNext]_vars

\* ------------------------------------------------- triggers for ever
\* The trigger is called again and again while time goes by without bound.
\* The program only compares locked_at with now - timeout, so the timestamps
\* are kept relative to the present: the clock stays at 0 and time that
\* passes between two triggers moves every locked_at into the past, down to
\* the age from which on a lock is stale whatever time passes further.
\* An invocation may stop in the middle of a task (the process crashes): the
\* task keeps status processing, its lock and the progress stored so far.
\* An invocation that stops before it stored anything leaves the rows as a
\* failed load of the task row does.
LiveRows == {1, 2}
LiveLists == {<<1, 2>>}
LiveOutcomes == {"ok", "step_failed"}
Elapsed == {1, 2}
OldestAge == LockTimeout + 1
MaxStored == 1

\* mutant of Aged: a lock never gets older than the timeout
Aged_NeverStale(row, d) ==
    IF row.locked_at = None THEN row
    ELSE [row EXCEPT !.locked_at =
            Some(IF row.locked_at[1] - d < 0 - LockTimeout
                 THEN 0 - LockTimeout ELSE row.locked_at[1] - d)]

\* the row seen d ticks later
Aged(row, d) ==
    IF row.locked_at = None THEN row
    ELSE [row EXCEPT !.locked_at =
            Some(IF row.locked_at[1] - d < 0 - OldestAge
                 THEN 0 - OldestAge ELSE row.locked_at[1] - d)]

\* d ticks pass while no invocation runs
Elapse(d) ==
    /\ \A w \in Workers : inv[w].pc = "idle"
    /\ tasks' = [t \in TaskIds |-> Aged(tasks[t], d)]
    /\ UNCHANGED <<clock, batchSize, inv, pendingClaims, rows, call, isInitialized, mappings, reply>>

\* the process stops between two participants and loses its locals (a run
\* that repeats the participants of a task adds entries to the stored list,
\* so the runs that stop are counted by the entries they leave behind)
Crash(w) ==
    /\ inv[w].pc = "participant"
    /\ inv[w].k > 1
    /\ \A t \in TaskIds : Len(InitialOutputFiles(tasks[t])) <= MaxStored
    /\ inv' = [inv EXCEPT ![w] = [IdleInvocation EXCEPT !.returned = "crashed"]]
    /\ UNCHANGED <<tasks, clock, batchSize, pendingClaims, rows, call, isInitialized, mappings, reply>>

\* the iteration of the participant loop at position k, whatever its outcome
ParticipantStep(w, k) ==
    /\ inv[w].k = k
    /\ \E o \in LiveOutcomes : ProcessParticipant(w, o)

LiveInit ==
    /\ tasks = <<>>
    /\ clock = 0
    /\ batchSize \in BatchSizes
    /\ inv = [w \in Workers |-> IdleInvocation]
    /\ pendingClaims = <<>>
    /\ rows = LiveRows
    /\ call = IdleCall
    /\ isInitialized = TRUE
    /\ mappings = <<>>
    /\ reply = NoReply

\* the next step of an invocation that has its candidates, whatever the
\* store answers
TaskStep(w) ==
    \/ \E ok \in BOOLEAN : ClaimAttempt(w, ok, FALSE)
    \/ FetchFailed(w)
    \/ TemplateNotFound(w)
    \/ ParticipantsUnresolvable(w)
    \/ LoadTask(w)
    \/ \E k \in 1..2 : ParticipantStep(w, k)
    \/ FinalizeTask(w)

LiveNext ==
    \/ \E ids \in LiveLists : CreateDocumentTask(ids, None)
    \/ \E d \in Elapsed : Elapse(d)
    \/ \E w \in PipelineWorkers : ScanPending(w, 0, TRUE)
    \/ \E w \in PipelineWorkers : ScanStale(w, TRUE, FALSE)
    \/ \E w \in PipelineWorkers : TaskStep(w)
    \/ \E w \in PipelineWorkers : Crash(w)

\* time goes by; the trigger is called again and again; the two scans
\* succeed (the select of stale tasks is the only step of an invocation that
\* waits for it, so that it returns is written as a state it leaves); every
\* later call of a running invocation returns; a claim or a load of the task
\* row that is tried again and again succeeds in the end
LiveSpec ==
    /\ LiveInit
    /\ [][LiveNext]_vars
    /\ SF_vars(Elapse(OldestAge))
    /\ \A w \in PipelineWorkers :
          /\ []<>(inv[w].pc # "scanStale")
          /\ WF_vars(TaskStep(w))
          /\ WF_vars(ScanPending(w, 0, TRUE))
          /\ SF_vars(ClaimAttempt(w, TRUE, FALSE))
          /\ SF_vars(LoadTask(w))

\* ------------------------------------------------- placeholder mappings
\* values of a participant field: null, undefined, a string, a number, a
\* boolean
Null == [type |-> "null", s |-> "", n |-> 0, b |-> FALSE]
Undefined == [type |-> "undefined", s |-> "", n |-> 0, b |-> FALSE]
Str(s) == [type |-> "string", s |-> s, n |-> 0, b |-> FALSE]
Num(n) == [type |-> "number", s |-> "", n |-> n, b |-> FALSE]
Bool(b) == [type |-> "boolean", s |-> "", n |-> 0, b |-> b]

Digit(d) ==
    CASE d = 0 -> "0" [] d = 1 -> "1" [] d = 2 -> "2" [] d = 3 -> "3"
      [] d = 4 -> "4" [] d = 5 -> "5" [] d = 6 -> "6" [] d = 7 -> "7"
      [] d = 8 -> "8" [] d = 9 -> "9"

RECURSIVE NatToString(_)
NatToString(n) ==
    IF n < 10 THEN Digit(n) ELSE NatToString(n \div 10) \o Digit(n % 10)

\* String(value)
String(value) ==
    CASE value.type = "string" -> value.s
      [] value.type = "number" -> NatToString(value.n)
      [] value.type = "boolean" -> (IF value.b THEN "true" ELSE "false")
      [] value.type = "null" -> "null"
      [] value.type = "undefined" -> "undefined"

\* value === null || value === undefined ? '' : String(value)
ReplacementValue(value) ==
    IF value.type \in {"null", "undefined"} THEN "" ELSE String(value)

\* participant[key]
Field(participant, key) ==
    IF key \in DOMAIN participant THEN participant[key] ELSE Undefined

FieldNames == {"first_name", "age"}
FieldValues == {Null, Undefined, Str("Ann"), Num(42), Bool(TRUE)}
Participants == UNION {[S -> FieldValues] : S \in SUBSET FieldNames}

\* s.trim(), on the strings that are passed in
Trim(s) == CASE s = " name" -> "name" [] s = " " -> "" [] OTHER -> s

DtoPlaceholders == {"name", " name", "years", " "}
DtoParticipantKeys == {"first_name", "missing", ""}
MaxMappings == 2
TemplateMappingDtos ==
    [placeholder : DtoPlaceholders, participantKey : DtoParticipantKeys]
SetTemplateMappingsDtos ==
    UNION {[1..n -> TemplateMappingDtos] : n \in 0..MaxMappings}

\* getMappingsForTemplate: null on a store error and on an empty result
GetMappingsForTemplate(readOk) ==
    IF ~readOk THEN None
    ELSE IF Len(mappings) = 0 THEN None
    ELSE Some([i \in 1..Len(mappings) |->
                 [ placeholder |-> mappings[i].placeholder,
                   participantKey |-> mappings[i].participant_key ]])

\* the loop over the mappings: replacements[mapping.placeholder] = ...
RECURSIVE AssignMapped(_, _, _)
AssignMapped(participant, ms, n) ==
    IF n = 0 THEN EmptyRecord
    ELSE LET r == AssignMapped(participant, ms, n - 1)
             mapping == ms[n]
             value == Field(participant, mapping.participantKey)
         IN [k \in DOMAIN r \cup {mapping.placeholder} |->
               IF k = mapping.placeholder THEN ReplacementValue(value) ELSE r[k]]

\* buildReplacementsForParticipant
BuildReplacementsForParticipant(participant, ms) ==
    IF ms # None /\ Len(ms[1]) > 0
    THEN AssignMapped(participant, ms[1], Len(ms[1]))
    ELSE [k \in DOMAIN participant |-> ReplacementValue(participant[k])]

\* processSingleTask reads the mappings of the template of the task and
\* builds the replacements of one participant
BuildReplacements(participant, readOk) ==
    /\ reply' =
          [ op |-> "buildReplacements", outcome |-> "ok",
            participant |-> participant, stored |-> mappings,
            read |-> GetMappingsForTemplate(readOk),
            replacements |->
                BuildReplacementsForParticipant(participant,
                                                GetMappingsForTemplate(readOk)) ]
    /\ UNCHANGED <<tasks, clock, batchSize, inv, pendingClaims, rows, call,
                   isInitialized, mappings>>

\* placeholders.length !== new Set(placeholders).size
DuplicatePlaceholders(dto) ==
    \E i, j \in 1..Len(dto) : i # j /\ dto[i].placeholder = dto[j].placeholder

\* !mapping.placeholder || mapping.placeholder.trim() === '', the same for
\* participantKey
EmptyValues(dto) ==
    \E i \in 1..Len(dto) :
        \/ dto[i].placeholder = "" \/ Trim(dto[i].placeholder) = ""
        \/ dto[i].participantKey = "" \/ Trim(dto[i].participantKey) = ""

\* mappingsToInsert
MappingsToInsert(dto) ==
    [i \in 1..Len(dto) |->
        [ placeholder |-> Trim(dto[i].placeholder),
          participant_key |-> Trim(dto[i].participantKey) ]]

\* UNIQUE(template_id, placeholder) rejects the insert
ViolatesUnique(inserted) ==
    \E i, j \in 1..Len(inserted) :
        i # j /\ inserted[i].placeholder = inserted[j].placeholder

SetReply(outcome) == [NoReply EXCEPT !.op = "setTemplateMappings", !.outcome = outcome]

\* the rows of the template after the delete and the insert of
\* setTemplateMappings
StoredAfterSet(dto, deleteOk, insertOk) ==
    IF ~deleteOk THEN mappings
    ELSE IF Len(dto) = 0 THEN <<>>
    ELSE IF ~insertOk \/ ViolatesUnique(MappingsToInsert(dto)) THEN <<>>
    ELSE MappingsToInsert(dto)

\* setTemplateMappings; allowed = FALSE: getTemplateForProject throws;
\* deleteOk, insertOk = FALSE: the store answers with an error
SetTemplateMappings(dto, allowed, deleteOk, insertOk) ==
    /\ mappings' =
          IF ~allowed \/ DuplicatePlaceholders(dto) \/ EmptyValues(dto)
          THEN mappings
          ELSE StoredAfterSet(dto, deleteOk, insertOk)
    /\ reply' =
          IF ~allowed THEN SetReply("rejected")
          ELSE IF DuplicatePlaceholders(dto) \/ EmptyValues(dto)
          THEN SetReply("bad_request")
          ELSE IF ~deleteOk THEN SetReply("error")
          ELSE IF Len(dto) = 0 THEN SetReply("ok")
          ELSE IF ~insertOk \/ ViolatesUnique(MappingsToInsert(dto))
          THEN SetReply("error")
          ELSE SetReply("ok")
    /\ UNCHANGED <<tasks, clock, batchSize, inv, pendingClaims, rows, call,
                   isInitialized>>

MappingsNext ==
    \/ \E dto \in SetTemplateMappingsDtos, allowed, deleteOk, insertOk \in BOOLEAN :
          SetTemplateMappings(dto, allowed, deleteOk, insertOk)
    \/ \E participant \in Participants, readOk \in BOOLEAN :
          BuildReplacements(participant, readOk)

MappingsSpec == Init /\ [][MappingsNext]_vars

\* ------------------------------------------------- the guarded trigger
\* POST /internal/documents/tasks/run behind CronSecretGuard.
\* values of the x-cron-secret header and of CRON_RUNNER_SECRET: absent,
\* empty, or one of two secrets
Secrets == {None, Some(""), Some("s1"), Some("s2")}

\* JavaScript truthiness of an optional string
Truthy(x) == x # None /\ x # Some("")

\* mutant of CanActivate: without a configured secret every request passes
CanActivate_OpenWhenUnset(providedSecret, expectedSecret) ==
    \/ ~Truthy(expectedSecret)
    \/ Truthy(providedSecret) /\ providedSecret = expectedSecret

\* CronSecretGuard.canActivate: TRUE where it returns true, FALSE where it
\* throws UnauthorizedException
CanActivate(providedSecret, expectedSecret) ==
    IF ~Truthy(expectedSecret) THEN FALSE
    ELSE IF ~Truthy(providedSecret) \/ providedSecret # expectedSecret THEN FALSE
    ELSE TRUE

\* a request to the trigger: the guard, then runDocumentTasks up to the
\* select of pending tasks; a rejected request is answered with 401 and
\* reaches no handler
RunDocumentTasks(w, providedSecret, expectedSecret, time, ok) ==
    IF CanActivate(providedSecret, expectedSecret)
    THEN ScanPending(w, time, ok)
    ELSE /\ inv[w].pc = "idle"
         /\ \A v \in Workers : v < w => inv[v].pc # "idle"
         /\ inv' = [inv EXCEPT ![w] = [IdleInvocation EXCEPT !.returned = "unauthorized"]]
         /\ UNCHANGED <<tasks, clock, batchSize, pendingClaims, rows, call, isInitialized, mappings, reply>>

TriggerNext ==
    \/ \E ids \in ParticipantLists : CreateDocumentTask(ids, None)
    \/ \E w \in PipelineWorkers, providedSecret, expectedSecret \in Secrets,
          time \in PipelineTimes, ok \in BOOLEAN :
          RunDocumentTasks(w, providedSecret, expectedSecret, time, ok)
    \/ \E w \in PipelineWorkers, ok \in BOOLEAN : ScanStale(w, ok, FALSE)
    \/ \E w \in PipelineWorkers, ok \in BOOLEAN : ClaimAttempt(w, ok, FALSE)
    \/ \E w \in PipelineWorkers : FetchFailed(w)
    \/ \E w \in PipelineWorkers : TemplateNotFound(w)
    \/ \E w \in PipelineWorkers : ParticipantsUnresolvable(w)
    \/ \E w \in PipelineWorkers : LoadTask(w)
    \/ \E w \in PipelineWorkers, o \in Outcomes : ProcessParticipant(w, o)
    \/ \E w \in PipelineWorkers : FinalizeTask(w)

TriggerSpec == Init /\ [][TriggerNext]_vars

\* ------------------------------------------------------------ properties
LocksNull(row) == row.locked_at = None /\ row.locked_by = None

LocksSet(row) == row.locked_at # None /\ row.locked_by # None

OutputFilesOf(row) == IF row.output_files = None THEN <<>> ELSE row.output_files[1]

\* attempts of the claim loop made so far by the invocation in slot w
Attempts(w) == 1..Len(inv[w].claimResults)

\* the invocation in slot w is the one whose claim update last affected row t
Owns(w, t) ==
    /\ t \in Range(inv[w].claimed)
    /\ tasks[t].locked_at = Some(inv[w].now)

\* a step of the pipeline of w that writes progress_done, output_files or status
PipelineWrite(w) ==
    \/ TemplateNotFound(w)
    \/ ParticipantsUnresolvable(w)
    \/ \E o \in Outcomes \ {"missing"} : ProcessParticipant(w, o)
    \/ FinalizeTask(w)

\* C1: of the conditional updates that try to claim one pending task, exactly
\* one affects the row; every other attempt sees zero rows and does not put
\* the task in its claimed list.
C1_ExactlyOnePendingClaim ==
    /\ \A t \in TaskIds : pendingClaims[t] <= 1
    /\ \A w \in Workers : \A i \in Attempts(w) :
         LET cand == inv[w].candidates[i]
             res == inv[w].claimResults[i]
         IN (cand.status = "pending" /\ res \in {"claimed", "zero_rows"}) =>
              /\ pendingClaims[cand.id] = 1
              /\ (res = "claimed") <=> (cand.id \in Range(inv[w].claimed))

\* two invocations tried to claim the same pending task: one won, one saw zero rows
C1_Witness ==
    \E w1, w2 \in Workers : \E i \in Attempts(w1), j \in Attempts(w2) :
        /\ w1 # w2
        /\ inv[w1].candidates[i].id = inv[w2].candidates[j].id
        /\ inv[w1].candidates[i].status = "pending"
        /\ inv[w2].candidates[j].status = "pending"
        /\ inv[w1].claimResults[i] = "claimed"
        /\ inv[w2].claimResults[j] = "zero_rows"

\* C2: when two overlapping invocations selected the same processing task
\* with the same stale lock as a candidate, at most one of their two reclaim
\* updates affects the row.
C2_AtMostOneReclaim ==
    \A w1, w2 \in Workers : \A i \in Attempts(w1), j \in Attempts(w2) :
        ( /\ w1 # w2
          /\ inv[w1].candidates[i].id = inv[w2].candidates[j].id
          /\ inv[w1].candidates[i].status = "processing"
          /\ inv[w2].candidates[j].status = "processing"
          /\ inv[w1].candidates[i].locked_at = inv[w2].candidates[j].locked_at )
        => ~(inv[w1].claimResults[i] = "claimed" /\ inv[w2].claimResults[j] = "claimed")

\* C3: while a task is processing and its lock is not stale, only the
\* invocation that claimed it last writes progress_done, output_files or status.
C3_OnlyOwnerWrites ==
    [][\A w \in Workers :
         (PipelineWrite(w) /\ tasks[CurrentTask(w)].status = "processing"
                           /\ clock - tasks[CurrentTask(w)].locked_at[1] <= LockTimeout)
         => Owns(w, CurrentTask(w))]_vars

\* C4: a claim update never affects a processing row whose lock age is below
\* the lock timeout, and the update of a candidate scanned as stale affects the
\* row when the store executes it, the batch is not full and the row still
\* carries the scanned lock.
C4_ReclaimOnlyWhenStale ==
    [][\A w \in Workers :
         (\E ok, full \in BOOLEAN : ClaimAttempt(w, ok, full)) =>
            LET r == inv[w]
                cand == r.candidates[r.idx]
                t == cand.id
                res == inv'[w].claimResults[r.idx]
            IN /\ (tasks[t].status = "processing" /\ res = "claimed")
                    => clock - tasks[t].locked_at[1] >= LockTimeout
               /\ ( /\ cand.status = "processing"
                    /\ tasks[t].status = "processing"
                    /\ tasks[t].locked_at = cand.locked_at
                    /\ res \notin {"error", "batch_full"} )
                    => /\ res = "claimed"
                       /\ t \in Range(inv'[w].claimed)
                       /\ tasks'[t].locked_at = Some(r.now)]_vars

\* an invocation has reclaimed a task it scanned with a stale lock
C4_Witness ==
    \E w \in Workers : \E i \in Attempts(w) :
        /\ inv[w].candidates[i].status = "processing"
        /\ inv[w].claimResults[i] = "claimed"
        /\ inv[w].candidates[i].id \in Range(inv[w].claimed)

\* C5: a status changes only from pending to processing or from processing
\* to done or failed; done and failed are final.
C5_ValidTransitions ==
    [][\A t \in TaskIds :
         tasks'[t].status # tasks[t].status =>
            <<tasks[t].status, tasks'[t].status>> \in
                { <<"pending", "processing">>, <<"processing", "done">>,
                  <<"processing", "failed">> }]_vars

\* C6: 0 <= progress_done <= progress_total = number of participant ids.
C6_ProgressBounded ==
    \A t \in TaskIds :
        /\ 0 <= tasks[t].progress_done
        /\ tasks[t].progress_done <= tasks[t].progress_total
        /\ tasks[t].progress_total = Len(tasks[t].participant_ids)

\* a reclaimed task, re-run to its end on top of the entries of the earlier
\* run, with a failed participant
C6_Witness ==
    \E t \in TaskIds :
        /\ tasks[t].status = "failed"
        /\ tasks[t].progress_done = tasks[t].progress_total
        /\ Len(OutputFilesOf(tasks[t])) > tasks[t].progress_total

\* C7: status = processing exactly when locked_at and locked_by are both set.
C7_ProcessingIffLocked ==
    \A t \in TaskIds : (tasks[t].status = "processing") <=> LocksSet(tasks[t])

\* a claimed task in the middle of its pipeline run
C7_Witness ==
    \E t \in TaskIds :
        /\ tasks[t].status = "processing"
        /\ LocksSet(tasks[t])
        /\ tasks[t].progress_done > 0

\* C8: a done or failed task has both lock fields null.
C8_TerminalUnlocked ==
    \A t \in TaskIds : tasks[t].status \in {"done", "failed"} => LocksNull(tasks[t])

\* a task failed because its template was not found
C8_Witness ==
    \E t \in TaskIds :
        /\ tasks[t].status = "failed"
        /\ tasks[t].error = Some("template_not_found")
        /\ LocksNull(tasks[t])

\* C9 as stated: status is done or failed exactly when both lock fields are null.
C9_TerminalIffUnlocked ==
    \A t \in TaskIds : tasks[t].status \in {"done", "failed"} <=> LocksNull(tasks[t])

\* C9 amended: both lock fields are null exactly when the status is pending,
\* done or failed.
C9_UnlockedIffNotProcessing ==
    \A t \in TaskIds :
        LocksNull(tasks[t]) <=> tasks[t].status \in {"pending", "done", "failed"}

\* a task finished by the final update
C9_Witness ==
    \E t \in TaskIds :
        /\ tasks[t].status = "done"
        /\ LocksNull(tasks[t])
        /\ tasks[t].progress_done = tasks[t].progress_total

\* C10: output_files has progress_done entries, each for a participant id of
\* the task, no participant id twice.
C10_OutputFilesMatchProgress ==
    \A t \in TaskIds :
        LET files == OutputFilesOf(tasks[t])
        IN /\ Len(files) = tasks[t].progress_done
           /\ \A i \in 1..Len(files) :
                files[i].participantId \in Range(tasks[t].participant_ids)
           /\ \A i, j \in 1..Len(files) :
                files[i].participantId = files[j].participantId => i = j

\* C11: the pipeline run of a reclaimed task whose row already stores entries
\* starts its participant loop at the first id of the list, handles the ids
\* one by one in list order and reaches the final update only after the last
\* one: all n ids are run again.
C11_ReclaimRunsWholeList ==
    [][\A w \in Workers :
         /\ LoadTask(w) =>
               /\ inv'[w].k = 1
               /\ inv'[w].loaded[1].participant_ids = tasks[CurrentTask(w)].participant_ids
               /\ inv'[w].pc = IF tasks[CurrentTask(w)].participant_ids = <<>>
                               THEN "finalize" ELSE "participant"
         /\ (\E o \in Outcomes : ProcessParticipant(w, o)) =>
               /\ inv[w].k <= Len(inv[w].loaded[1].participant_ids)
               /\ inv'[w].k = inv[w].k + 1
               /\ inv'[w].outputFiles[Len(inv'[w].outputFiles)].participantId
                     = inv[w].loaded[1].participant_ids[inv[w].k]
         /\ FinalizeTask(w) =>
               inv[w].k = Len(inv[w].loaded[1].participant_ids) + 1]_vars

\* a reclaimed task with stored entries whose second run has handled all ids
C11_Witness ==
    \E w \in Workers :
        /\ inv[w].pc = "finalize"
        /\ Len(InitialOutputFiles(inv[w].loaded[1])) > 0
        /\ Len(inv[w].outputFiles)
             = Len(InitialOutputFiles(inv[w].loaded[1])) + Len(inv[w].loaded[1].participant_ids)
        /\ Len(inv[w].loaded[1].participant_ids) > 1

\* C12: the lookup of a participant that fails appends an entry with an
\* empty pdfFileId and an error; the final update of a run that started from
\* an empty output_files stores exactly one entry per participant id, in list
\* order, and sets the status to failed if one of them is a failed lookup.
C12_FirstRunOneEntryPerParticipant ==
    [][\A w \in PipelineWorkers :
         /\ ProcessParticipant(w, "missing") =>
               LET e == inv'[w].outputFiles[Len(inv'[w].outputFiles)]
               IN /\ e.participantId = inv[w].loaded[1].participant_ids[inv[w].k]
                  /\ e.pdfFileId = ""
                  /\ e.error # None
         /\ (FinalizeTask(w) /\ InitialOutputFiles(inv[w].loaded[1]) = <<>>) =>
               LET t == CurrentTask(w)
                   ids == tasks[t].participant_ids
                   files == OutputFilesOf(tasks'[t])
               IN /\ tasks'[t].output_files # None
                  /\ Len(files) = Len(ids)
                  /\ \A i \in 1..Len(ids) : files[i].participantId = ids[i]
                  /\ (\E i \in 1..Len(files) : files[i].error = Some("not_found"))
                       => tasks'[t].status = "failed"]_vars

\* participant ids [1,2,3], the lookup of id 2 failed, the others succeeded
C12_Witness ==
    \E t \in TaskIds :
        LET files == OutputFilesOf(tasks[t])
        IN /\ tasks[t].participant_ids = <<1, 2, 3>>
           /\ tasks[t].status = "failed"
           /\ Len(files) = 3
           /\ files[1].error = None /\ files[3].error = None
           /\ files[2].error = Some("not_found") /\ files[2].pdfFileId = ""

\* C13: between two participants of a pipeline run, and between the last
\* participant and the final update, the stored row holds the progress_done
\* and the output_files of the run, the participant just handled included.
C13_PersistedAfterEachParticipant ==
    \A w \in PipelineWorkers :
        (inv[w].pc \in {"participant", "finalize"} /\ inv[w].k > 1) =>
            LET t == CurrentTask(w)
            IN /\ tasks[t].progress_done = inv[w].progressDone
               /\ OutputFilesOf(tasks[t]) = inv[w].outputFiles

\* C14: the final update of a pipeline run sets the status to failed if a
\* participant of this run produced an error entry and to done otherwise,
\* clears both lock fields, and stores an overall error message exactly when
\* the status is failed.
C14_FinalStatusFromRunErrors ==
    [][\A w \in Workers :
         FinalizeTask(w) =>
            LET t == CurrentTask(w)
                before == Len(InitialOutputFiles(inv[w].loaded[1]))
                files == inv[w].outputFiles
                runFailed == \E i \in (before + 1)..Len(files) : files[i].error # None
            IN /\ inv[w].k = Len(inv[w].loaded[1].participant_ids) + 1
               /\ tasks'[t].status = IF runFailed THEN "failed" ELSE "done"
               /\ LocksNull(tasks'[t])
               /\ (tasks'[t].error # None) <=> (tasks'[t].status = "failed")]_vars

\* a reclaimed task finished as done by a run without errors, on top of an
\* error entry of the earlier run
C14_Witness ==
    \E t \in TaskIds :
        /\ tasks[t].status = "done"
        /\ tasks[t].error = None
        /\ LocksNull(tasks[t])
        /\ \E i \in 1..Len(OutputFilesOf(tasks[t])) : OutputFilesOf(tasks[t])[i].error # None

\* C15: whatever the outcome of a participant (missing record, provider step
\* failure, error thrown before the provider steps), the iteration adds one
\* entry and one to progressDone and the loop goes on to the next id; the run
\* reaches the final update with one new entry and one increment per id and
\* returns normally, the task being counted as processed.
C15_FailureNeverEndsLoop ==
    [][\A w \in PipelineWorkers :
         /\ \A o \in PipelineOutcomes :
               ProcessParticipant(w, o) =>
                  LET n == Len(inv[w].loaded[1].participant_ids)
                  IN /\ Len(inv'[w].outputFiles) = Len(inv[w].outputFiles) + 1
                     /\ inv'[w].progressDone = inv[w].progressDone + 1
                     /\ inv'[w].hasErrors = (inv[w].hasErrors \/ o # "ok")
                     /\ inv'[w].pc = IF inv[w].k < n THEN "participant" ELSE "finalize"
                     /\ inv'[w].pidx = inv[w].pidx
         /\ FinalizeTask(w) =>
               LET n == Len(inv[w].loaded[1].participant_ids)
               IN /\ inv[w].progressDone = n
                  /\ Len(inv[w].outputFiles) = Len(InitialOutputFiles(inv[w].loaded[1])) + n
                  /\ CurrentTask(w) \in Range(inv'[w].processed)]_vars

\* a processed task of three participants: the first threw before the provider
\* steps, the second failed in a provider step, the third succeeded
C15_Witness ==
    \E w \in PipelineWorkers : \E t \in Range(inv[w].processed) :
        LET files == OutputFilesOf(tasks[t])
        IN /\ tasks[t].participant_ids = <<1, 2, 3>>
           /\ tasks[t].progress_done = 3
           /\ Len(files) = 3
           /\ files[1].error = Some("thrown")
           /\ files[2].error = Some("provider")
           /\ files[3].error = None /\ files[3].pdfFileId # ""

\* C16: every failed task has an output_files entry with an error, for one of
\* the participant ids of the task.
C16_FailedHasErrorEntry ==
    \A t \in TaskIds :
        tasks[t].status = "failed" =>
            \E i \in 1..Len(OutputFilesOf(tasks[t])) :
                /\ OutputFilesOf(tasks[t])[i].error # None
                /\ OutputFilesOf(tasks[t])[i].participantId \in Range(tasks[t].participant_ids)

\* C17: a task-level failure (template not found, participant data not
\* resolvable) happens before the participant loop, sets the task to failed
\* with both lock fields null and leaves progress_done and output_files alone;
\* the task is not counted as processed and the invocation goes on with the
\* next task it claimed.
C17_TaskFailureIsolated ==
    [][\A w \in PipelineWorkers :
         (TemplateNotFound(w) \/ ParticipantsUnresolvable(w)) =>
            LET r == inv[w]
                t == CurrentTask(w)
            IN /\ r.loaded = None /\ r.outputFiles = <<>> /\ r.progressDone = 0
               /\ tasks'[t].status = "failed"
               /\ LocksNull(tasks'[t])
               /\ tasks'[t].error # None
               /\ tasks'[t].output_files = tasks[t].output_files
               /\ tasks'[t].progress_done = tasks[t].progress_done
               /\ \A u \in TaskIds \ {t} : tasks'[u] = tasks[u]
               /\ inv'[w].processed = r.processed
               /\ inv'[w].claimed = r.claimed
               /\ IF r.pidx < Len(r.claimed)
                  THEN inv'[w].pc = "fetch" /\ inv'[w].pidx = r.pidx + 1
                  ELSE inv'[w].pc = "idle" /\ inv'[w].returned = "ok"]_vars

\* an invocation claimed two tasks: the first failed because its template was
\* not found, the second was then processed to done
C17_Witness ==
    \E w \in PipelineWorkers :
        /\ Len(inv[w].claimed) = 2
        /\ tasks[inv[w].claimed[1]].status = "failed"
        /\ tasks[inv[w].claimed[1]].error = Some("template_not_found")
        /\ tasks[inv[w].claimed[1]].output_files = None
        /\ inv[w].processed = <<inv[w].claimed[2]>>
        /\ tasks[inv[w].claimed[2]].status = "done"

\* C18: a retryable failure of the remote call of copy, substitute, export
\* or upload reaches the caller of the operation only after the remote call
\* has been invoked as many times as the attempt cap allows.
C18_PipelineOperationsRetried ==
    ( /\ call.pc = "done"
      /\ call.op \in PipelineOperations
      /\ call.errors # <<>>
      /\ IsRetryableDriveError(call.errors[Len(call.errors)]) )
    => /\ call.attempt = DefaultMaxAttempts
       /\ Len(call.errors) = DefaultMaxAttempts

\* C19: a call under withRetry that succeeds after k retryable failures was
\* invoked k + 1 times with k below the attempt cap, the wait after failure i
\* was BaseDelayMs * 2^(i-1), and the successful value is the result.
C19_RetryThenSuccess ==
    (call.pc = "done" /\ call.retry /\ call.retryResult = Value) =>
        /\ call.invocations = Len(call.errors) + 1
        /\ Len(call.errors) < call.maxAttempts
        /\ \A i \in 1..Len(call.errors) : IsRetryableDriveError(call.errors[i])
        /\ Len(call.delays) = Len(call.errors)
        /\ \A i \in 1..Len(call.delays) : call.delays[i] = BaseDelayMs * 2 ^ (i - 1)
        /\ call.result = Value

\* two retryable failures, then success at the third attempt
C19_Witness ==
    /\ call.pc = "done"
    /\ call.op = "getAccountUsageDebug"
    /\ call.retryResult = Value
    /\ Len(call.errors) = 2
    /\ call.invocations = 3
    /\ call.delays = <<500, 1000>>
    /\ call.result = Value

\* C20: an operation whose remote call fails with a non-retryable error at
\* its first attempt has made that call once and throws that very error.
C20_NonRetryablePropagatesUnchanged ==
    ( /\ call.pc = "done"
      /\ call.op # "deleteFile"
      /\ Len(call.errors) = 1
      /\ ~IsRetryableDriveError(call.errors[1]) )
    => /\ call.attempt = 1
       /\ call.result = Thrown(call.errors[1])

\* C21: with a client that was never initialised, every operation (copy,
\* substitute, export, upload, delete) throws the not-configured error at once
\* and makes no remote call; a pipeline run then adds an error entry for
\* every participant and finishes the task as failed.
C21_NotConfiguredFailsEverything ==
    [][~isInitialized =>
         /\ \A op \in IterationOperations, h \in BOOLEAN :
               StartOperation(op, isInitialized, h) =>
                  /\ call'.pc = "done"
                  /\ call'.result = NotConfigured
                  /\ call'.invocations = 0
         /\ \A w \in PipelineWorkers :
               /\ FinishParticipant(w) =>
                     LET files == inv'[w].outputFiles
                     IN /\ Len(files) = Len(inv[w].outputFiles) + 1
                        /\ files[Len(files)].participantId =
                              inv[w].loaded[1].participant_ids[inv[w].k]
                        /\ files[Len(files)].error # None
                        /\ files[Len(files)].pdfFileId = ""
               /\ FinalizeTask(w) =>
                     LET t == CurrentTask(w)
                         ids == tasks[t].participant_ids
                         files == OutputFilesOf(tasks'[t])
                     IN /\ tasks'[t].status = "failed"
                        /\ Len(files) = Len(ids)
                        /\ \A i \in 1..Len(ids) :
                              files[i].participantId = ids[i] /\ files[i].error # None]_vars

\* a task of two participants run with the client not initialised: both
\* copies threw the not-configured error, the task is failed
C21_Witness ==
    /\ ~isInitialized
    /\ call.op = "copyTemplateDoc" /\ call.result = NotConfigured /\ call.invocations = 0
    /\ \E t \in TaskIds :
          LET files == OutputFilesOf(tasks[t])
          IN /\ tasks[t].participant_ids = <<1, 2>>
             /\ tasks[t].status = "failed"
             /\ Len(files) = 2
             /\ \A i \in 1..2 : files[i].error = Some("provider") /\ files[i].docFileId = None

\* C22: deleteFile never throws to its caller, whether or not the client is
\* initialised and whatever the remote delete does.
C22_DeleteFileNeverThrows ==
    (call.pc = "done" /\ call.op = "deleteFile") => call.result = Value

\* the candidate at the position of the claim loop of w passes the check on
\* its snapshot, and the row no longer meets the condition of the update
ZeroRows(w) ==
    LET r == inv[w]
        cand == r.candidates[r.idx]
    IN /\ r.pc = "claim"
       /\ \/ cand.status = "pending" /\ ~PendingCondition(tasks[cand.id])
          \/ /\ cand.status = "processing"
             /\ cand.locked_at # None
             /\ cand.locked_at[1] < r.threshold
             /\ ~ReclaimCondition(tasks[cand.id], r.threshold)

SendsUpdate(w) ==
    LET r == inv[w]
        cand == r.candidates[r.idx]
    IN /\ r.pc = "claim"
       /\ \/ cand.status = "pending"
          \/ /\ cand.status = "processing"
             /\ cand.locked_at # None
             /\ cand.locked_at[1] < r.threshold

\* C24: when the store answers a query of the scan phase or an update of the
\* claim phase with an error, the invocation ends there with an error for
\* its caller.
C24_StoreErrorFailsInvocation ==
    [][\A w \in Workers :
         /\ (inv[w].pc = "scanStale" /\ inv[w].pendingError /\ \E ok \in BOOLEAN : ScanStale(w, ok, FALSE))
               => (inv'[w].pc = "idle" /\ inv'[w].returned = "error")
         /\ (inv[w].pc = "scanStale" /\ ScanStale(w, FALSE, FALSE))
               => (inv'[w].pc = "idle" /\ inv'[w].returned = "error")
         /\ (SendsUpdate(w) /\ ClaimAttempt(w, FALSE, FALSE))
               => (inv'[w].pc = "idle" /\ inv'[w].returned = "error")]_vars

\* C25: createDocumentTask with a list that holds an id twice inserts
\* nothing; otherwise it inserts exactly one row, with status pending,
\* progress_done 0, progress_total the length of the list, the ids in the
\* order given and both lock fields null, and changes no other row.
C25_CreateInsertsOnePendingTask ==
    [][\A ids \in ParticipantLists :
         CreateDocumentTask(ids, None) =>
            IF \E i, j \in 1..Len(ids) : i # j /\ ids[i] = ids[j]
            THEN tasks' = tasks
            ELSE /\ Len(tasks') = Len(tasks) + 1
                 /\ SubSeq(tasks', 1, Len(tasks)) = tasks
                 /\ LET row == tasks'[Len(tasks')]
                    IN /\ row.status = "pending"
                       /\ row.progress_done = 0
                       /\ row.progress_total = Len(ids)
                       /\ row.participant_ids = ids
                       /\ LocksNull(row)]_vars

\* a task just created for the ids [1,2]
C25_Witness ==
    \E t \in TaskIds :
        /\ tasks[t].participant_ids = <<1, 2>>
        /\ tasks[t].status = "pending"
        /\ tasks[t].progress_total = 2
        /\ tasks[t].progress_done = 0
        /\ tasks[t].output_files = None
        /\ LocksNull(tasks[t])
        /\ \A w \in Workers : inv[w].pc = "idle" /\ inv[w].returned = "none"

\* C26: a request to the trigger starts processDocumentTasks only if its
\* x-cron-secret header equals the configured secret; a request without the
\* header or with another value, and every request while no secret is
\* configured, is rejected and no task is scanned, claimed or changed.
C26_TriggerNeedsSecret ==
    [][\A w \in PipelineWorkers :
         /\ \A p, e \in Secrets, time \in PipelineTimes, ok \in BOOLEAN :
               RunDocumentTasks(w, p, e, time, ok) =>
                  IF e \in {Some("s1"), Some("s2")} /\ p = e
                  THEN inv'[w].pc = "scanStale"
                  ELSE /\ tasks' = tasks
                       /\ inv'[w].pc = "idle"
                       /\ inv'[w].returned = "unauthorized"
                       /\ inv'[w].pendingTasks = <<>>
                       /\ inv'[w].candidates = <<>>
                       /\ inv'[w].claimed = <<>>
         /\ (inv[w].pc = "idle" /\ inv'[w].pc # "idle") =>
               \E e \in {Some("s1"), Some("s2")}, time \in PipelineTimes, ok \in BOOLEAN :
                   RunDocumentTasks(w, e, e, time, ok)]_vars

\* a request was rejected; the pending task of the table is untouched
C26_Witness ==
    \E w \in PipelineWorkers : \E t \in TaskIds :
        /\ inv[w].pc = "idle"
        /\ inv[w].returned = "unauthorized"
        /\ tasks[t].status = "pending"
        /\ LocksNull(tasks[t])

\* positions in the calls of an iteration: of deleteFile, of an operation that returned
DeleteCalls(it) == {i \in 1..Len(it.steps) : it.steps[i].op = "deleteFile"}

ReturnedCalls(it, op) ==
    {i \in 1..Len(it.steps) : it.steps[i].op = op /\ it.steps[i].result = "returned"}

\* C27: when the iteration of a participant ends, the pipeline has called
\* deleteFile exactly once if the copy was created and not at all otherwise,
\* as its last provider call, whether the later steps succeeded or failed
\* (deleteFile repeats its remote call under its own retry policy); the entry
\* and the error flag that decides the final status depend on copy,
\* substitute, export and upload only, not on what the deletion did.
C27_CopyDeletedOnce ==
    [][\A w \in PipelineWorkers :
         FinishParticipant(w) =>
            LET it == inv[w].iter
                n == Len(it.steps)
                copied == ReturnedCalls(it, "copyTemplateDoc") # {}
                generated == \A op \in PipelineOperations : ReturnedCalls(it, op) # {}
                files == inv'[w].outputFiles
                entry == files[Len(files)]
            IN /\ Cardinality(DeleteCalls(it)) = IF copied THEN 1 ELSE 0
               /\ copied => (it.steps[n].op = "deleteFile" /\ it.steps[n].result # "running")
               /\ ~it.calling
               /\ (entry.error = None) <=> generated
               /\ (entry.pdfFileId # "") <=> generated
               /\ (entry.docFileId # None) <=> copied
               /\ inv'[w].hasErrors = (inv[w].hasErrors \/ ~generated)
               /\ inv'[w].iter = IdleIteration]_vars

\* a task finished as done although the deletion of the copy of its
\* participant failed at every attempt deleteFile made
C27_Witness ==
    /\ call.op = "deleteFile"
    /\ call.pc = "done"
    /\ call.retryResult.kind = "thrown"
    /\ call.invocations = DeleteMaxAttempts
    /\ \E t \in TaskIds :
          /\ tasks[t].status = "done"
          /\ tasks[t].participant_ids = <<1>>
          /\ OutputFilesOf(tasks[t])[1].error = None
          /\ OutputFilesOf(tasks[t])[1].pdfFileId = "pdf"

\* the order of the provider steps of one participant
StepOrder == <<"copyTemplateDoc", "replacePlaceholders", "exportPdf", "uploadPdfToDrive">>

IsGenerationStep(step) == step.op # "deleteFile"

\* C28: the provider steps of a participant are called in the order copy,
\* substitute, export, upload, each at most once; a step is called only
\* after every earlier one returned; nothing is called after deleteFile; copy
\* and upload get the folder of the task if the task has one and the
\* configured default otherwise.
C28_StepsInOrder ==
    \A w \in PipelineWorkers :
        inv[w].pc = "participant" =>
            LET it == inv[w].iter
                gen == SelectSeq(it.steps, IsGenerationStep)
                taskFolderId == tasks[CurrentTask(w)].output_drive_folder_id
            IN /\ Len(gen) <= Len(StepOrder)
               /\ \A i \in 1..Len(gen) : gen[i].op = StepOrder[i]
               /\ \A i \in 2..Len(gen) : gen[i - 1].result = "returned"
               /\ \A i \in DeleteCalls(it) : i = Len(it.steps)
               /\ \A i \in 1..Len(gen) :
                     gen[i].op \in {"copyTemplateDoc", "uploadPdfToDrive"} =>
                        gen[i].folderId = IF taskFolderId # None THEN taskFolderId
                                          ELSE it.defaultFolderId

\* all four steps of a participant returned; the task has a folder and a
\* default folder is configured
C28_Witness ==
    \E w \in PipelineWorkers :
        /\ inv[w].pc = "participant"
        /\ inv[w].iter.stage = "deleteFile"
        /\ Len(inv[w].iter.steps) = 4
        /\ \A i \in 1..4 : inv[w].iter.steps[i].result = "returned"
        /\ inv[w].iter.steps[4].folderId = Some("task_folder")
        /\ inv[w].iter.defaultFolderId = Some("default_folder")

\* ids of the candidates the claim loop of w put in its claimed list, in the
\* order of the candidate list
RECURSIVE ClaimedCandidates(_, _)
ClaimedCandidates(w, n) ==
    IF n = 0 THEN <<>>
    ELSE IF inv[w].claimResults[n] = "claimed"
    THEN Append(ClaimedCandidates(w, n - 1), inv[w].candidates[n].id)
    ELSE ClaimedCandidates(w, n - 1)

\* C29: the candidates of an invocation, pending and stale together, are in
\* ascending creation time and the claimed list follows that order; the
\* tasks are run in the order of the claimed list, one at a time, the next
\* one only after the run of the previous one has ended; within a run the
\* participants are handled in the order of the id list, one per step.
C29_ProcessingOrder ==
    /\ [](\A w \in PipelineWorkers :
            LET r == inv[w]
            IN /\ \A i, j \in 1..Len(r.candidates) :
                     i < j => r.candidates[i].created_at < r.candidates[j].created_at
               /\ r.claimed = ClaimedCandidates(w, Len(r.claimResults))
               /\ \A i, j \in 1..Len(r.claimed) :
                     i < j => tasks[r.claimed[i]].created_at < tasks[r.claimed[j]].created_at
               /\ \A i \in 1..Len(r.processed) :
                     \E j \in 1..(r.pidx - 1) :
                        /\ r.processed[i] = r.claimed[j]
                        /\ i < Len(r.processed) =>
                              \E l \in (j + 1)..(r.pidx - 1) : r.processed[i + 1] = r.claimed[l])
    /\ [][\A w \in PipelineWorkers :
            LET r == inv[w]
            IN /\ (r.pc \in {"fetch", "participant", "finalize"} /\ inv'[w].pidx # r.pidx) =>
                     /\ inv'[w].pidx = r.pidx + 1
                     /\ r.pc \in {"fetch", "finalize"}
                     /\ r.pc = "finalize" => r.k = Len(r.loaded[1].participant_ids) + 1
                     /\ inv'[w].claimed = r.claimed
               /\ (r.pc = "fetch" /\ inv'[w].pc = "participant") => inv'[w].k = 1
               /\ \A o \in Outcomes :
                     ProcessParticipant(w, o) =>
                        LET files == inv'[w].outputFiles
                        IN /\ files[Len(files)].participantId =
                                 tasks[CurrentTask(w)].participant_ids[r.k]
                           /\ inv'[w].k = r.k + 1
                           /\ inv'[w].pidx = r.pidx]_vars

\* an invocation found the newer task pending and the older one with a stale
\* lock, claimed both and ran the older one first, its participants in the
\* order of the list
C29_Witness ==
    \E w \in PipelineWorkers :
        /\ Len(inv[w].candidates) = 2
        /\ inv[w].candidates[1].status = "processing"
        /\ inv[w].candidates[2].status = "pending"
        /\ inv[w].claimed = <<inv[w].candidates[1].id, inv[w].candidates[2].id>>
        /\ inv[w].processed = inv[w].claimed
        /\ inv[w].pc = "idle"
        /\ \A i \in 1..2 :
              LET files == OutputFilesOf(tasks[inv[w].claimed[i]])
              IN /\ Len(files) = 2
                 /\ files[1].participantId = 2
                 /\ files[2].participantId = 1

\* updates the claim loop of w sent to the store
UpdateAttempts(w) ==
    {i \in Attempts(w) : inv[w].claimResults[i] \in {"claimed", "zero_rows", "error"}}

\* C30: an invocation has at most 2 * batchSize candidates, sends at most
\* that many claim updates and claims at most batchSize tasks.
C30_BatchLimits ==
    \A w \in PipelineWorkers :
        /\ Len(inv[w].candidates) <= 2 * batchSize
        /\ Cardinality(UpdateAttempts(w)) <= 2 * batchSize
        /\ Len(inv[w].claimed) <= batchSize
        /\ Cardinality(Range(inv[w].claimed)) = Len(inv[w].claimed)

\* batch size 1 and three tasks, the oldest with a stale lock and two
\* pending: two candidates, two updates sent, one task claimed, the newest
\* task left alone
C30_Witness ==
    \E w \in PipelineWorkers :
        /\ batchSize = 1
        /\ Len(tasks) = 3
        /\ Len(inv[w].candidates) = 2
        /\ inv[w].candidates[1].status = "processing"
        /\ inv[w].candidates[2].status = "pending"
        /\ inv[w].claimResults = <<"error", "claimed">>
        /\ inv[w].claimed = <<inv[w].candidates[2].id>>
        /\ \E t \in TaskIds :
              /\ t \notin {inv[w].candidates[1].id, inv[w].candidates[2].id}
              /\ tasks[t].status = "pending"
              /\ tasks[t].created_at > inv[w].candidates[2].created_at

\* C31: a call under withRetry is invoked at most maxAttempts times, 6 by
\* default and 4 for the delete; when every attempt failed with a retryable
\* error the call throws the error of the last attempt after exactly
\* maxAttempts invocations and maxAttempts - 1 waits; a call that was
\* started always ends.
C31_RetryBounded ==
    /\ [](call.retry =>
            /\ call.maxAttempts = IF call.op = "deleteFile" THEN 4 ELSE 6
            /\ call.invocations <= call.maxAttempts
            /\ call.attempt <= call.maxAttempts
            /\ ( /\ call.pc = "done"
                 /\ call.errors # <<>>
                 /\ \A i \in 1..Len(call.errors) : IsRetryableDriveError(call.errors[i])
                 /\ call.retryResult # Value )
               => /\ call.invocations = call.maxAttempts
                  /\ Len(call.errors) = call.maxAttempts
                  /\ Len(call.delays) = call.maxAttempts - 1
                  /\ call.retryResult = Thrown(call.errors[Len(call.errors)]))
    /\ (call.pc = "remote") ~> (call.pc = "done")

\* the delete failed four times with a retryable error: four invocations,
\* three waits, the last error thrown by withRetry
C31_Witness ==
    /\ call.pc = "done"
    /\ call.op = "deleteFile"
    /\ call.invocations = 4
    /\ Len(call.errors) = 4
    /\ \A i \in 1..4 : IsRetryableDriveError(call.errors[i])
    /\ call.delays = <<500, 1000, 2000>>
    /\ call.retryResult = Thrown(call.errors[4])

\* the entries an invocation holds in memory and the entries stored in a row
AllOutputEntries ==
    UNION ({Range(inv[w].outputFiles) : w \in Workers}
           \cup {Range(OutputFilesOf(tasks[t])) : t \in TaskIds})

\* C32: an output_files entry has an error exactly if its pdfFileId is the
\* empty string, and the error is then a non-empty text; an entry without
\* error has a non-empty pdfFileId and a docFileId.
C32_ErrorIffNoPdf ==
    \A e \in AllOutputEntries :
        /\ (e.error # None) <=> (e.pdfFileId = "")
        /\ e.error # None => e.error[1] # ""
        /\ e.error = None => (e.pdfFileId # "" /\ e.docFileId # None)

\* a stored list with the entry of a generated document and the entry of a
\* participant whose export or upload failed after the copy
C32_Witness ==
    \E t \in TaskIds :
        LET files == OutputFilesOf(tasks[t])
        IN /\ Len(files) = 2
           /\ files[1].error = None /\ files[1].pdfFileId = "pdf" /\ files[1].docFileId = Some("doc")
           /\ files[2].error # None /\ files[2].pdfFileId = "" /\ files[2].docFileId = Some("doc")

Stringified(value) ==
    IF value = Null \/ value = Undefined THEN "" ELSE String(value)

\* C34: the replacements of a participant have, when the template has a
\* mapping, one key per mapped placeholder with the stringified value of the
\* mapped participant field and no other key, and otherwise one key per
\* participant field with its stringified value; null, undefined and a
\* missing field give the empty string.
C34_ReplacementsFollowMappings ==
    reply.op = "buildReplacements" =>
        IF Len(reply.stored) > 0
        THEN /\ DOMAIN reply.replacements =
                    {reply.stored[i].placeholder : i \in 1..Len(reply.stored)}
             /\ \A i \in 1..Len(reply.stored) :
                    reply.replacements[reply.stored[i].placeholder] =
                        Stringified(Field(reply.participant,
                                          reply.stored[i].participant_key))
        ELSE /\ DOMAIN reply.replacements = DOMAIN reply.participant
             /\ \A k \in DOMAIN reply.participant :
                    reply.replacements[k] = Stringified(reply.participant[k])

\* C38: the stored placeholders of the template are pairwise distinct, and
\* the stored mappings change only in a call of setTemplateMappings that
\* succeeds: a call that fails leaves them as they were.
C38_SetMappingsAllOrNothing ==
    /\ [](\A i, j \in 1..Len(mappings) :
             i # j => mappings[i].placeholder # mappings[j].placeholder)
    /\ [][mappings' # mappings =>
            (reply'.op = "setTemplateMappings" /\ reply'.outcome = "ok")]_vars

\* return { claimed, processed, taskIds } of processDocumentTasks
Result(r) ==
    [ claimed |-> Len(r.claimed), processed |-> Len(r.processed),
      taskIds |-> r.processed ]

\* C35: the result of an invocation has processed <= claimed <= batchSize;
\* taskIds has processed elements, all distinct, each a task the invocation
\* claimed; a task gets into taskIds when its pipeline run returns, and a
\* run that throws leaves taskIds and the claimed tasks as they are.
C35_ResultCounts ==
    /\ [](\A w \in PipelineWorkers :
            (inv[w].pc = "idle" /\ inv[w].returned = "ok") =>
                LET res == Result(inv[w])
                IN /\ res.processed <= res.claimed
                   /\ res.claimed <= batchSize
                   /\ Len(res.taskIds) = res.processed
                   /\ \A i, j \in 1..Len(res.taskIds) :
                         i # j => res.taskIds[i] # res.taskIds[j]
                   /\ Range(res.taskIds) \subseteq Range(inv[w].claimed))
    /\ [][\A w \in PipelineWorkers :
            /\ FinalizeTask(w) =>
                  inv'[w].processed = Append(inv[w].processed, CurrentTask(w))
            /\ (FetchFailed(w) \/ TemplateNotFound(w) \/ ParticipantsUnresolvable(w)) =>
                  /\ inv'[w].processed = inv[w].processed
                  /\ inv'[w].claimed = inv[w].claimed
                  /\ CurrentTask(w) \notin Range(inv'[w].processed)]_vars

\* an invocation with batchSize 2 returned: it claimed two tasks, the run of
\* the first returned and the run of the second threw because the
\* participant data could not be resolved
C35_Witness ==
    \E w \in PipelineWorkers :
        /\ inv[w].pc = "idle" /\ inv[w].returned = "ok"
        /\ batchSize = 2
        /\ Result(inv[w]).claimed = 2
        /\ Result(inv[w]).processed = 1
        /\ Result(inv[w]).taskIds = <<inv[w].claimed[1]>>
        /\ tasks[inv[w].claimed[2]].status = "failed"
        /\ tasks[inv[w].claimed[2]].output_files = None

C37_FetchFailureLeavesTaskLocked ==
    [][\A w \in PipelineWorkers :
         FetchFailed(w) =>
            LET r == inv[w]
                t == CurrentTask(w)
            IN /\ tasks' = tasks
               /\ tasks'[t].status = "processing"
               /\ LocksSet(tasks'[t])
               /\ tasks'[t].error = tasks[t].error
               /\ inv'[w].processed = r.processed
               /\ t \notin Range(inv'[w].processed)
               /\ inv'[w].claimed = r.claimed
               /\ IF r.pidx < Len(r.claimed)
                  THEN inv'[w].pc = "fetch" /\ inv'[w].pidx = r.pidx + 1
                  ELSE inv'[w].pc = "idle" /\ inv'[w].returned = "ok"]_vars

\* an invocation claimed two tasks: the load of the first failed and left it
\* in processing with its lock and nothing stored, the second was then
\* processed to done
C37_Witness ==
    \E w \in PipelineWorkers :
        /\ inv[w].pc = "idle" /\ inv[w].returned = "ok"
        /\ Len(inv[w].claimed) = 2
        /\ tasks[inv[w].claimed[1]].status = "processing"
        /\ LocksSet(tasks[inv[w].claimed[1]])
        /\ tasks[inv[w].claimed[1]].output_files = None
        /\ tasks[inv[w].claimed[1]].error = None
        /\ inv[w].processed = <<inv[w].claimed[2]>>
        /\ tasks[inv[w].claimed[2]].status = "done"

====
